---- MODULE Spec2Model ----
(***************************************************************************)
(* Timbers wallpaper generator: the canvas compositing pipeline.           *)
(*                                                                         *)
(* The module holds several state machines over one set of variables:      *)
(*   Spec        the render scheduler of WallpaperCanvas (its effects,     *)
(*               queueRender, executeRender and the passes of              *)
(*               generateWallpaper) on the browser's event loop;           *)
(*   SpecExport  the scheduler together with the download button;          *)
(*   SpecFatal   the scheduler when the 2D context may be missing and the  *)
(*               dimensions may be non-positive;                           *)
(*   SpecPass    one pass of generateWallpaper at a time, followed draw    *)
(*               operation by draw operation, with the ways its image      *)
(*               loads settle and its steps throw;                         *)
(*   SpecLoad    calls of tryLoadImage;                                    *)
(*   SpecLegacy  the preview effect and the download button of the         *)
(*               single-file application (App.jsx);                        *)
(*   SpecLayout  the layout constants of a pass, applied to one request;   *)
(*   SpecFormat  the date and the time drawn under a match logo, applied   *)
(*               to one match, character by character;                     *)
(*   SpecText    the string and the font size of the custom text;          *)
(*   SpecRow     the entries of the match row and their places;            *)
(*   SpecFont    the runs of loadFonts of the font loading effect;         *)
(*   SpecQueue   the scheduler, noting the triggers queueRender turns      *)
(*               away;                                                     *)
(*   SpecThrow   the scheduler on a 2D context whose resetCanvas throws;   *)
(*   SpecStyle   one pass of generateWallpaper statement by statement,     *)
(*               with the state of the 2D context and the loads awaited.   *)
(* Lengths on the canvas are exact rationals (whole numbers of 1/Unit      *)
(* pixels); the rounding of IEEE doubles is not modelled.                  *)
(***************************************************************************)
EXTENDS Integers, Sequences, FiniteSets, TLC

\* ------------------------------------------------------------------------
\* Bounds of the model
\* ------------------------------------------------------------------------
MaxVer == 2        \* number of parameter changes after mount
MaxPasses == 3     \* number of generateWallpaper calls that are scheduled
MaxExportVer == 1  \* number of parameter changes when the export path is modelled

NoVer == 0 - 1     \* no props version: nothing has drawn, nothing is loading

\* ------------------------------------------------------------------------
\* Delays of the timers, in milliseconds
\* ------------------------------------------------------------------------
CaptureDelay == 0     \* randomUtils.js:42
GenerateDelay == 5    \* WallpaperCanvas.jsx:1996
ExecuteDelay == 10    \* WallpaperCanvas.jsx:2021
ForcedDelay == 100    \* WallpaperCanvas.jsx:2115

\* ------------------------------------------------------------------------
\* State of the render scheduler (WallpaperCanvas.jsx, third component)
\* ------------------------------------------------------------------------
VARIABLES
  ver,              \* version of the props (RenderRequest) of the last React render
  hasCtx,           \* canvas.getContext('2d') returns a context
  dimensions,       \* dimensions[v+1]: width and height of version v are positive
  isRendering,      \* renderStateRef.current.isRendering
  recent,           \* Date.now() - renderStateRef.current.lastRenderTime < 50
  hasInitialRender, \* renderStateRef.current.hasInitialRender
  rafQueue,         \* animation frame callbacks registered for the next frame
  frameList,        \* callbacks of the frame being run, not yet called
  timers,           \* pending setTimeout callbacks, in the order they were set
  fontPending,      \* loadFonts() in flight for the effect of this version
  passes,           \* generateWallpaper calls suspended on an image load
  nPass,            \* number of generateWallpaper calls scheduled so far
  maxStarted,       \* highest props version a started pass has read so far
  canvas,           \* what the canvas bitmap shows
  lastExec,         \* outcome of the last executeRender
  doneSinceChange,  \* since the last parameter change a pass has run to its
                    \* footer and left its own complete frame on the canvas
  captured          \* what the last canvas.toBlob read

schedVars == <<ver, hasCtx, dimensions, isRendering, recent, hasInitialRender,
               rafQueue, frameList, timers, fontPending, passes, nPass,
               maxStarted, canvas, lastExec, doneSinceChange, captured>>

\* ------------------------------------------------------------------------
\* State of one pass of generateWallpaper, draw operation by draw operation
\* ------------------------------------------------------------------------
VARIABLES
  req,              \* the props the pass has closed over (the RenderRequest)
  gpc,              \* the statement of generateWallpaper the pass is at
  idx,              \* i of the match row loop
  ops,              \* the draw operations issued on the canvas since its reset
  themeBackground,  \* what getThemeBackground resolved with
  loads,            \* how the image loads of the request settle
  raised,           \* the step in which an exception was thrown, if any
  thrown,           \* the step whose exception left generateWallpaper, if any
  prev              \* the draw operations of the pass before this one

passVars == <<req, gpc, idx, ops, themeBackground, loads, raised, thrown, prev>>

\* ------------------------------------------------------------------------
\* State of one call of tryLoadImage (imageLoader.js)
\* ------------------------------------------------------------------------
VARIABLES
  nav,              \* navigator.userAgent and window.MSStream, as the tests read them
  src,              \* the kind of source the call is given
  img,              \* the first Image: its crossOrigin and its load state
  fallbackImg,      \* the Image of the retry
  promise,          \* the promise of the call
  attempts,         \* the loads the call has started, in order
  nCalls            \* number of calls made so far

loadVars == <<nav, src, img, fallbackImg, promise, attempts, nCalls>>

\* ------------------------------------------------------------------------
\* State of the download of the single-file application (App.jsx)
\* ------------------------------------------------------------------------
VARIABLES
  download          \* where downloadWallpaper is, and the pass it awaits

\* ------------------------------------------------------------------------
\* One application of a function of the renderer to one input
\* ------------------------------------------------------------------------
VARIABLES
  arg,              \* the input the function is applied to
  result            \* what it returned, once it has been applied

pureVars == <<arg, result>>

\* ------------------------------------------------------------------------
\* State of the font loading effect of WallpaperCanvas
\* ------------------------------------------------------------------------
VARIABLES
  fontLoad          \* the runs of loadFonts and the frames the effects requested

\* ------------------------------------------------------------------------
\* The state of the 2D context during one pass, statement by statement
\* ------------------------------------------------------------------------
VARIABLES
  ctx               \* shadow, globalAlpha, letterSpacing, the loads awaited, the calls made

\* History of the scheduler, read by no action
VARIABLES
  dropped           \* newest version whose queueRender returned at the isRendering test

vars == <<schedVars, passVars, loadVars, download, pureVars, fontLoad, dropped, ctx>>

\* What the actions of one machine leave alone
notSched == <<passVars, loadVars, download, pureVars, fontLoad, dropped, ctx>>
notPass == <<schedVars, loadVars, download, pureVars, fontLoad, dropped, ctx>>
notLoad == <<schedVars, passVars, download, pureVars, fontLoad, dropped, ctx>>
notPure == <<schedVars, passVars, loadVars, download, fontLoad, dropped, ctx>>
notFont == <<schedVars, passVars, loadVars, download, pureVars, dropped, ctx>>
notCtx == <<schedVars, passVars, loadVars, download, pureVars, fontLoad, dropped>>

\* The font loading effect is not followed
FontOff == [runs |-> <<>>]

\* No pass is followed statement by statement
NoCtx == [pc |-> "off", i |-> 0, shadow |-> FALSE, globalAlpha |-> 100,
          letterSpacing |-> 0, loading |-> {}, log |-> <<>>]

\* No function is being applied
NoResult == [done |-> FALSE]

PureOff == arg = NoResult /\ result = NoResult

\* includeDateTime as TimbersWallpaperGenerator passes it to WallpaperCanvas
IncludeDateTimeProp == FALSE

BlankCanvas == [reset |-> 0, state |-> "blank", ver |-> NoVer, dt |-> FALSE]

NoCapture == [taken |-> FALSE, state |-> "blank", dt |-> FALSE, afterDone |-> FALSE]

DimsOK(q) == dimensions[q + 1]

\* cancelAnimationFrame(renderStateRef.current.animationFrame): the one
\* callback whose handle is kept in animationFrame leaves the list
CancelStored(list) == SelectSeq(list, LAMBDA e : ~e.stored)

\* clearTimeout(timeoutId) in the cleanup of the forced-render effect
ClearForced(list) == SelectSeq(list, LAMBDA t : t.kind # "forced")

\* The list without its i-th element
Without(list, i) == SubSeq(list, 1, i - 1) \o SubSeq(list, i + 1, Len(list))

\* The event loop runs a timer only after the timers that were set before it
\* with the same or a smaller delay
CanFire(i) == \A j \in 1..(i - 1) : timers[j].delay > timers[i].delay

\* resetCanvasState(width, height)
ResetCanvasState(cv, q) ==
  IF hasCtx /\ DimsOK(q) THEN BlankCanvas ELSE cv

\* resetCanvas(ctx, width, height) as called when a font load settles
ResetCanvas(cv) ==
  IF hasCtx THEN BlankCanvas ELSE cv

\* executeRender of the closure of version q, on canvas cv, with tm the
\* pending timers: black fill and setTimeout(generateWallpaper, 5), or a
\* warning only; finally isRendering = false
ExecuteRender(q, cv, tm) ==
  /\ isRendering' = FALSE
  /\ IF hasCtx /\ DimsOK(q)
       THEN /\ nPass < MaxPasses
            /\ canvas' = BlankCanvas
            /\ timers' = Append(tm, [kind |-> "generate", q |-> q, id |-> nPass + 1,
                                     delay |-> GenerateDelay])
            /\ nPass' = nPass + 1
            /\ lastExec' = "started"
       ELSE /\ canvas' = cv
            /\ timers' = tm
            /\ lastExec' = "skipped"
            /\ UNCHANGED nPass

\* queueRender of the closure of version q; rest is what is left of the
\* running frame's callback list
QueueRender(q, rest) ==
  IF isRendering
    THEN /\ frameList' = rest
         /\ UNCHANGED <<isRendering, recent, hasInitialRender, rafQueue,
                        timers, nPass, canvas, lastExec>>
    ELSE IF recent
      THEN /\ frameList' = CancelStored(rest)
           /\ rafQueue' = Append(CancelStored(rafQueue), [q |-> q, stored |-> TRUE])
           /\ UNCHANGED <<isRendering, recent, hasInitialRender,
                          timers, nPass, canvas, lastExec>>
      ELSE /\ frameList' = rest
           /\ recent' = TRUE
           /\ UNCHANGED rafQueue
           /\ IF ~hasInitialRender
                THEN \* Promise.resolve().then(executeRender): runs at the
                     \* microtask checkpoint that ends this callback
                     /\ hasInitialRender' = TRUE
                     /\ ExecuteRender(q, ResetCanvasState(canvas, q), timers)
                ELSE /\ isRendering' = TRUE
                     /\ timers' = Append(timers, [kind |-> "execute", q |-> q, id |-> 0,
                                                  delay |-> ExecuteDelay])
                     /\ canvas' = ResetCanvasState(canvas, q)
                     /\ UNCHANGED <<hasInitialRender, nPass, lastExec>>

\* The browser starts a frame: the callbacks registered so far will run
AnimationFrame ==
  /\ UNCHANGED notSched
  /\ frameList = <<>>
  /\ rafQueue # <<>>
  /\ frameList' = rafQueue
  /\ rafQueue' = <<>>
  /\ UNCHANGED <<ver, hasCtx, dimensions, isRendering, recent, hasInitialRender,
                 timers, fontPending, passes, nPass, maxStarted, canvas,
                 lastExec, doneSinceChange, captured>>

\* The frame calls its next callback, which is always a queueRender
RunFrameCallback ==
  /\ UNCHANGED notSched
  /\ frameList # <<>>
  /\ QueueRender(Head(frameList).q, Tail(frameList))
  /\ UNCHANGED <<ver, hasCtx, dimensions, fontPending, passes, maxStarted,
                 doneSinceChange, captured>>

\* setTimeout(executeRender, 10) fires
ExecuteRenderTimer(i) ==
  /\ UNCHANGED notSched
  /\ frameList = <<>>
  /\ timers[i].kind = "execute"
  /\ CanFire(i)
  /\ ExecuteRender(timers[i].q, canvas, Without(timers, i))
  /\ UNCHANGED <<ver, hasCtx, dimensions, recent, hasInitialRender, rafQueue,
                 frameList, fontPending, passes, maxStarted, doneSinceChange,
                 captured>>

\* 50 ms have gone by since lastRenderTime
TimePasses ==
  /\ UNCHANGED notSched
  /\ frameList = <<>>
  /\ recent
  /\ recent' = FALSE
  /\ UNCHANGED <<ver, hasCtx, dimensions, isRendering, hasInitialRender,
                 rafQueue, frameList, timers, fontPending, passes, nPass,
                 maxStarted, canvas, lastExec, doneSinceChange, captured>>

\* The effects of WallpaperCanvas that run after a React render with props of
\* version v, in the order they are declared (font loading, forced render,
\* main rendering), followed by the microtask of loadFonts().then when
\* loadFonts needs no network (system font, or font already in fontsLoaded).
\* selectedTheme is never empty (useBackgroundThemes starts it at "classic"),
\* so the main effect always resets hasInitialRender.
RunEffects(v, fontReady, raf, cv) ==
  LET afterMain == IF DimsOK(v)
                     THEN Append(CancelStored(raf), [q |-> v, stored |-> TRUE])
                     ELSE raf
  IN /\ timers' = Append(ClearForced(timers), [kind |-> "forced", q |-> v, id |-> 0,
                                               delay |-> ForcedDelay])
     /\ fontPending' = IF fontReady THEN NoVer ELSE v
     /\ hasInitialRender' = IF DimsOK(v) \/ fontReady THEN FALSE ELSE hasInitialRender
     /\ rafQueue' = IF fontReady
                      THEN Append(afterMain, [q |-> v, stored |-> FALSE])
                      ELSE afterMain
     /\ canvas' = IF fontReady THEN ResetCanvas(cv) ELSE cv

\* A parameter of the RenderRequest changes: React renders WallpaperCanvas
\* again, generateWallpaper and queueRender are new closures, the cleanups of
\* the three effects run (mounted = false, clearTimeout) and the effects run
ChangeParams(limit) ==
  /\ UNCHANGED notSched
  /\ frameList = <<>>
  /\ ver < limit
  /\ ver' = ver + 1
  /\ \E fontReady \in BOOLEAN : RunEffects(ver + 1, fontReady, rafQueue, canvas)
  /\ doneSinceChange' = FALSE
  /\ UNCHANGED <<hasCtx, dimensions, isRendering, recent, frameList,
                 passes, nPass, maxStarted, lastExec, captured>>

\* The 100 ms timer of the forced-render effect fires
ForcedTimer(i) ==
  /\ UNCHANGED notSched
  /\ frameList = <<>>
  /\ timers[i].kind = "forced"
  /\ CanFire(i)
  /\ timers' = Without(timers, i)
  /\ IF DimsOK(timers[i].q)
       THEN /\ hasInitialRender' = FALSE
            /\ rafQueue' = Append(CancelStored(rafQueue),
                                  [q |-> timers[i].q, stored |-> TRUE])
       ELSE UNCHANGED <<hasInitialRender, rafQueue>>
  /\ UNCHANGED <<ver, hasCtx, dimensions, isRendering, recent, frameList,
                 fontPending, passes, nPass, maxStarted, canvas, lastExec,
                 doneSinceChange, captured>>

\* loadFonts() settles, with the font or after its last retry: both branches
\* of the then-callback reset the canvas and request a frame for queueRender
FontSettled ==
  /\ UNCHANGED notSched
  /\ frameList = <<>>
  /\ fontPending # NoVer
  /\ fontPending' = NoVer
  /\ hasInitialRender' = FALSE
  /\ canvas' = ResetCanvas(canvas)
  /\ rafQueue' = Append(rafQueue, [q |-> fontPending, stored |-> FALSE])
  /\ UNCHANGED <<ver, hasCtx, dimensions, isRendering, recent, frameList,
                 timers, passes, nPass, maxStarted, lastExec,
                 doneSinceChange, captured>>

\* A draw of pass p on canvas cv: the frame stays that of one pass only while
\* the pass that reset the canvas last is the only one that drew on it
Draw(cv, p, drawsDateTime, footer) ==
  [reset |-> cv.reset,
   state |-> IF cv.reset = p.id /\ cv.state = "partial"
               THEN (IF footer THEN "complete" ELSE "partial")
               ELSE "mixed",
   ver   |-> p.q,
   dt    |-> cv.dt \/ drawsDateTime]

\* setTimeout(generateWallpaper, 5) fires: the pass checks the context and the
\* dimensions, resets the canvas and suspends on getThemeBackground
StartPass(i) ==
  /\ UNCHANGED notSched
  /\ frameList = <<>>
  /\ timers[i].kind = "generate"
  /\ CanFire(i)
  /\ timers' = Without(timers, i)
  /\ IF hasCtx /\ DimsOK(timers[i].q)
       THEN /\ canvas' = [reset |-> timers[i].id, state |-> "partial",
                          ver |-> timers[i].q, dt |-> FALSE]
            /\ passes' = passes \cup {[id |-> timers[i].id, q |-> timers[i].q,
                                       pc |-> "background",
                                       dt |-> IncludeDateTimeProp]}
            /\ maxStarted' = IF timers[i].q > maxStarted THEN timers[i].q
                                                         ELSE maxStarted
       ELSE UNCHANGED <<canvas, passes, maxStarted>>
  /\ UNCHANGED <<ver, hasCtx, dimensions, isRendering, recent, hasInitialRender,
                 rafQueue, frameList, fontPending, nPass, lastExec,
                 doneSinceChange, captured>>

\* The load a pass is suspended on settles and the pass runs to its next await:
\* background and effects; then patch, custom text and date/time; then the
\* match row and the footer
ResumePass(p) ==
  /\ UNCHANGED notSched
  /\ frameList = <<>>
  /\ IF p.pc = "background"
       THEN /\ canvas' = Draw(canvas, p, FALSE, FALSE)
            /\ passes' = (passes \ {p}) \cup {[p EXCEPT !.pc = "patch"]}
            /\ UNCHANGED doneSinceChange
       ELSE IF p.pc = "patch"
         THEN /\ canvas' = Draw(canvas, p, p.dt, FALSE)
              /\ passes' = (passes \ {p}) \cup {[p EXCEPT !.pc = "logo"]}
              /\ UNCHANGED doneSinceChange
         ELSE /\ canvas' = Draw(canvas, p, FALSE, TRUE)
              /\ passes' = passes \ {p}
              /\ doneSinceChange' = (doneSinceChange \/ canvas'.state = "complete")
  /\ UNCHANGED <<ver, hasCtx, dimensions, isRendering, recent, hasInitialRender,
                 rafQueue, frameList, timers, fontPending, nPass, maxStarted,
                 lastExec, captured>>

\* The download button: captureCanvasToBlob(canvas) arms setTimeout(..., 0)
DownloadClick ==
  /\ UNCHANGED notSched
  /\ frameList = <<>>
  /\ \A j \in 1..Len(timers) : timers[j].kind # "capture"
  /\ timers' = Append(timers, [kind |-> "capture", q |-> ver, id |-> 0,
                               delay |-> CaptureDelay])
  /\ UNCHANGED <<ver, hasCtx, dimensions, isRendering, recent, hasInitialRender,
                 rafQueue, frameList, fontPending, passes, nPass, maxStarted,
                 canvas, lastExec, doneSinceChange, captured>>

\* captureCanvasToBlob's timer fires: canvas.toBlob reads the bitmap
CaptureCanvasToBlob(i) ==
  /\ UNCHANGED notSched
  /\ frameList = <<>>
  /\ timers[i].kind = "capture"
  /\ CanFire(i)
  /\ timers' = Without(timers, i)
  /\ captured' = [taken |-> TRUE, state |-> canvas.state, dt |-> canvas.dt,
                  afterDone |-> doneSinceChange]
  /\ UNCHANGED <<ver, hasCtx, dimensions, isRendering, recent, hasInitialRender,
                 rafQueue, frameList, fontPending, passes, nPass, maxStarted,
                 canvas, lastExec, doneSinceChange>>

\* ------------------------------------------------------------------------
\* The requests a pass is checked on
\* ------------------------------------------------------------------------
MaxMatches == 2    \* longest nextMatches list

\* width and height of two of the devices of IPHONE_MODELS
IPHONE_MODELS == {[width |-> 1179, height |-> 2556],
                  [width |-> 1080, height |-> 2337]}

\* patchPositionY and matchPositionY, in percent of the height
PatchPositions == {30, 40}
MatchPositions == {26}

\* selectedTheme: ids the legacy switch of getThemeBackground knows, and one
\* it does not know
ThemeIds == {"classic", "night", "timber_jim", "custom"}

\* theme.effects of a catalog entry ("" when the manifest gives none)
EffectTags == {"", "night", "rose"}

\* backgroundThemes.find(theme => theme.value === selectedTheme): no entry,
\* or an entry of type image (with its filename) or of type gradient
NoEntry == [type |-> "none", effects |-> ""]

CatalogEntries ==
  {NoEntry, [type |-> "image", effects |-> ""]} \cup [type : {"gradient"}, effects : EffectTags]

\* nextMatches: each match has a logoUrl or has none
MatchLists == UNION {[1..n -> {"url", "none"}] : n \in 0..MaxMatches}

Requests == [device : IPHONE_MODELS, patchPositionY : PatchPositions,
             matchPositionY : MatchPositions, showPatchImage : BOOLEAN,
             selectedBackground : BOOLEAN, includeDateTime : BOOLEAN,
             includeMatches : BOOLEAN, selectedTheme : ThemeIds,
             catalogEntry : CatalogEntries,
             nextMatches : MatchLists]

\* The props of TimbersWallpaperGenerator before the user changes anything
DefaultRequest == [device |-> [width |-> 1179, height |-> 2556],
                   patchPositionY |-> 40, matchPositionY |-> 26,
                   showPatchImage |-> TRUE, selectedBackground |-> TRUE,
                   includeDateTime |-> IncludeDateTimeProp,
                   includeMatches |-> TRUE, selectedTheme |-> "classic",
                   catalogEntry |-> NoEntry,
                   nextMatches |-> <<>>]

\* ------------------------------------------------------------------------
\* Layout of generateWallpaper. Lengths are exact: a coordinate is a whole
\* number of 1/Unit pixels (40 * 60, so that the centre of each of up to 6
\* match entries is whole).
\* ------------------------------------------------------------------------
Unit == 2400

PATCH_TEXT_OFFSET == 380
NO_PATCH_TEXT_OFFSET == 100
FOOTER_BOTTOM_MARGIN == 140
DATE_TEXT_PADDING == 40
TIME_TEXT_PADDING == 75
LOGO_SIZE_PERCENT == 12
MATCH_ROW_WIDTH_PERCENT == 85
MIN_MATCH_FOOTER_BUFFER == 50

Min2(a, b) == IF a < b THEN a ELSE b
Max2(a, b) == IF a > b THEN a ELSE b

\* Math.floor(height * Math.max(0.2, Math.min(0.8, patchPositionY))), in pixels
LOGO_Y(r) == (r.device.height * Max2(20, Min2(80, r.patchPositionY))) \div 100

\* Math.floor(Math.min(width, height) * 0.2), in pixels
CIRCLE_RADIUS(r) == (Min2(r.device.width, r.device.height) * 20) \div 100

\* textY of the custom text
TextY(r) ==
  (LOGO_Y(r) + (IF r.showPatchImage THEN PATCH_TEXT_OFFSET
                                    ELSE NO_PATCH_TEXT_OFFSET)) * Unit

matchRowHeightEstimate(r) ==
  (r.device.width * LOGO_SIZE_PERCENT * Unit) \div 100
    + (TIME_TEXT_PADDING + 20) * Unit

minSafeMargin(r) ==
  FOOTER_BOTTOM_MARGIN * Unit + matchRowHeightEstimate(r)
    + MIN_MATCH_FOOTER_BUFFER * Unit

\* calculatedMargin with the lower limit of the slider, MIN_MATCH_POSITION
calculatedMarginFromSliderMin(r) ==
  (r.device.height * Max2(1, Min2(40, r.matchPositionY))) \div 100

\* Math.floor(height * Math.max(0.1, Math.min(0.4, matchPositionY))), in pixels
calculatedMargin(r) ==
  (r.device.height * Max2(10, Min2(40, r.matchPositionY))) \div 100

\* SCHEDULE_BOTTOM_MARGIN without its lower limit minSafeMargin
SCHEDULE_BOTTOM_MARGIN_NoFloor(r) ==
  Min2(calculatedMargin(r) * Unit, r.device.height * Unit - minSafeMargin(r))

SCHEDULE_BOTTOM_MARGIN(r) ==
  Max2(Min2(calculatedMargin(r) * Unit, r.device.height * Unit - minSafeMargin(r)),
       minSafeMargin(r))

scheduleY(r) == r.device.height * Unit - SCHEDULE_BOTTOM_MARGIN(r)

\* Math.floor(width * LOGO_SIZE_PERCENT), in pixels
logoSize(r) == (r.device.width * LOGO_SIZE_PERCENT) \div 100

\* maxMatches as the single-file application has it: at most four
maxMatchesOfFour(r) == Min2(Len(r.nextMatches), 4)

maxMatches(r) == Min2(Len(r.nextMatches), 6)

\* startX + i * itemWidth + itemWidth / 2 for entry i (from 0) of a row of
\* maxMatches entries that takes MATCH_ROW_WIDTH_PERCENT of the width:
\* width * (15 * n + 85 * (2 * i + 1)) / (200 * n) pixels
itemCenterX(r, i) ==
  (r.device.width * ((100 - MATCH_ROW_WIDTH_PERCENT) * maxMatches(r)
                     + MATCH_ROW_WIDTH_PERCENT * (2 * i + 1))
     * (Unit \div 200)) \div maxMatches(r)

\* ------------------------------------------------------------------------
\* The steps of generateWallpaper
\* ------------------------------------------------------------------------
Op(name, i, x, y) == [op |-> name, i |-> i, x |-> x, y |-> y]

CentreX(r) == (r.device.width * Unit) \div 2

NoLoads == [background |-> "unknown", patch |-> "unknown", logo |-> <<>>]

NoPrev == [valid |-> FALSE, patch |-> "unknown", raised |-> "none", ops |-> <<>>]

\* The ways a load can settle: either way the first time, the same way when
\* the same request is rendered again
Settle(known) == IF known = "unknown" THEN {"ok", "fail"} ELSE {known}

\* The pass is not running and the model does not follow its draw operations
PassOff ==
  /\ req = DefaultRequest
  /\ gpc = "off"
  /\ idx = 0
  /\ ops = <<>>
  /\ themeBackground = "none"
  /\ loads = NoLoads
  /\ raised = "none"
  /\ thrown = "none"
  /\ prev = NoPrev

\* An exception thrown in a step that no try block encloses: the promise of
\* generateWallpaper rejects and the rest of the function does not run
Escape(step) ==
  /\ gpc' = "rejected"
  /\ raised' = step
  /\ thrown' = step
  /\ UNCHANGED <<req, idx, ops, themeBackground, loads, prev>>

\* generateWallpaper up to its first await: the guards pass, the canvas is
\* reset and filled with black
GenerateWallpaper ==
  /\ gpc = "idle"
  /\ gpc' = "getThemeBackground"
  /\ ops' = <<Op("fillBlack", 0, 0, 0)>>
  /\ idx' = 0
  /\ themeBackground' = "none"
  /\ raised' = "none"
  /\ thrown' = "none"
  /\ UNCHANGED <<req, loads, prev, notPass>>

\* getThemeBackground awaits tryLoadImage: for a catalog entry of type image,
\* and for the legacy id timber_jim when the catalog entry is no gradient
ThemeLoadsImage(r) ==
  \/ r.catalogEntry.type = "image"
  \/ (r.catalogEntry.type = "none" /\ r.selectedTheme = "timber_jim")

\* getThemeBackground with a switch that has no default case
ThemeBackgroundWithoutDefault(r, outcome) ==
  CASE r.catalogEntry.type = "image" \/ (r.catalogEntry.type = "none" /\ r.selectedTheme = "timber_jim") ->
         IF outcome = "ok" THEN "image" ELSE "fallbackGradient"
    [] r.catalogEntry.type = "gradient" -> "themeGradient"
    [] r.selectedTheme = "night" -> "nightGradient"
    [] OTHER -> "undefined"

\* What getThemeBackground resolves with: the image, the gradient of the
\* catalog entry, the gradient of a legacy id, or createFallbackGradient
ThemeBackground(r, outcome) ==
  CASE ThemeLoadsImage(r) ->
         IF outcome = "ok" THEN "image" ELSE "fallbackGradient"
    [] r.catalogEntry.type = "gradient" -> "themeGradient"
    [] r.selectedTheme = "night" -> "nightGradient"
    [] OTHER -> "fallbackGradient"

\* await getThemeBackground(...) settles. The background image loads or
\* fails; addColorStop on the color stops of a catalog gradient may throw.
GetThemeBackground ==
  /\ gpc = "getThemeBackground"
  /\ UNCHANGED notPass
  /\ IF ThemeLoadsImage(req)
       THEN \E outcome \in Settle(loads.background) :
              /\ loads' = [loads EXCEPT !.background = outcome]
              /\ themeBackground' = ThemeBackground(req, outcome)
              /\ gpc' = "paintBackground"
              /\ UNCHANGED <<req, idx, ops, raised, thrown, prev>>
       ELSE \E throws \in BOOLEAN :
              IF throws /\ req.catalogEntry.type = "gradient"
                THEN Escape("gradient")
                ELSE /\ themeBackground' = ThemeBackground(req, "none")
                     /\ gpc' = "paintBackground"
                     /\ UNCHANGED <<req, idx, ops, loads, raised, thrown, prev>>

\* The background is painted: the image under a dark overlay, or the gradient
PaintBackground ==
  /\ gpc = "paintBackground"
  /\ ops' = IF themeBackground = "image"
              THEN ops \o <<Op("backgroundImage", 0, 0, 0), Op("darkOverlay", 0, 0, 0)>>
              ELSE Append(ops, Op(themeBackground, 0, 0, 0))
  /\ gpc' = "addThemeEffects"
  /\ UNCHANGED <<req, idx, themeBackground, loads, raised, thrown, prev, notPass>>

\* What Math.random() can return, as far as the model tells values apart
RandomDraws == {0, 1}

\* addThemeEffects without its two early returns
EffectTypeOfGradient(r) ==
  LET effectType == IF r.catalogEntry.type # "none" /\ r.catalogEntry.effects # ""
                      THEN r.catalogEntry.effects
                      ELSE r.selectedTheme
  IN IF effectType \in {"providence", "rose", "timber", "night", "forest"}
       THEN effectType
       ELSE "none"

\* The case of the switch of addThemeEffects that runs: none for an image
\* entry and for timber_jim, else the case named by theme.effects or, when
\* the entry is missing or has no effects, by selectedTheme
EffectType(r) ==
  LET effectType == IF r.catalogEntry.type # "none" /\ r.catalogEntry.effects # ""
                      THEN r.catalogEntry.effects
                      ELSE r.selectedTheme
  IN IF r.catalogEntry.type = "image" \/ r.selectedTheme = "timber_jim"
       THEN "none"
       ELSE IF effectType \in {"providence", "rose", "timber", "night", "forest"}
         THEN effectType
         ELSE "none"

DrawsOfEffectAll(effectType) == RandomDraws

\* The values Math.random() contributes to the overlay: the cases timber,
\* night and forest place their shapes with Math.random(), the cases
\* providence and rose compute every position
DrawsOfEffect(effectType) ==
  IF effectType \in {"timber", "night", "forest"} THEN RandomDraws ELSE {0}

\* addThemeEffects(...) is called outside any try block
AddThemeEffects ==
  /\ gpc = "addThemeEffects"
  /\ UNCHANGED notPass
  /\ \E throws \in BOOLEAN :
       IF throws
         THEN Escape("effects")
         ELSE /\ \E rnd \in DrawsOfEffect(EffectType(req)) :
                   ops' = IF EffectType(req) = "none"
                            THEN ops
                            ELSE Append(ops, Op(EffectType(req), 0, rnd, rnd))
              /\ gpc' = "patch"
              /\ UNCHANGED <<req, idx, themeBackground, loads, raised, thrown, prev>>

PatchRequested(r) == r.showPatchImage /\ r.selectedBackground

DrawPatchRingOutsideTry(outcome, r) ==
  IF outcome = "ok"
    THEN <<Op("patchImage", 0, CentreX(r), LOGO_Y(r) * Unit),
           Op("patchRing", 0, CentreX(r), LOGO_Y(r) * Unit)>>
    ELSE <<Op("patchRing", 0, CentreX(r), LOGO_Y(r) * Unit)>>

\* The try block of the patch: the emblem clipped to the circle and the gold
\* ring around it when tryLoadImage resolved, nothing when it rejected
DrawPatch(outcome, r) ==
  IF outcome = "ok"
    THEN <<Op("patchImage", 0, CentreX(r), LOGO_Y(r) * Unit),
           Op("patchRing", 0, CentreX(r), LOGO_Y(r) * Unit)>>
    ELSE <<>>

\* if (showPatchImage && selectedBackground) { try { await tryLoadImage ...
Patch ==
  /\ gpc = "patch"
  /\ gpc' = "customText"
  /\ IF PatchRequested(req)
       THEN \E outcome \in Settle(loads.patch) :
              /\ loads' = [loads EXCEPT !.patch = outcome]
              /\ ops' = ops \o DrawPatch(outcome, req)
       ELSE UNCHANGED <<loads, ops>>
  /\ UNCHANGED <<req, idx, themeBackground, raised, thrown, prev, notPass>>

\* ctx.fillText(displayText, width / 2, textY)
CustomText ==
  /\ gpc = "customText"
  /\ gpc' = "dateTime"
  /\ ops' = Append(ops, Op("customText", 0, CentreX(req), TextY(req)))
  /\ UNCHANGED <<req, idx, themeBackground, loads, raised, thrown, prev, notPass>>

\* drawDateAndTime(ctx, width, logoY, circleRadius) as generateWallpaper
\* calls it, with (ctx, width, height, LOGO_Y, ...): the date at
\* logoY - circleRadius - 400 and the time at logoY - circleRadius - 200
DrawDateAndTime(r) ==
  <<Op("currentDate", 0, CentreX(r), (r.device.height - LOGO_Y(r) - 400) * Unit),
    Op("currentTime", 0, CentreX(r), (r.device.height - LOGO_Y(r) - 200) * Unit)>>

DrawsMatches(r) == r.includeMatches /\ Len(r.nextMatches) > 0

\* if (includeDateTime) drawDateAndTime(...), outside any try block
DateTime ==
  /\ gpc = "dateTime"
  /\ UNCHANGED notPass
  /\ \E throws \in BOOLEAN :
       IF throws /\ req.includeDateTime
         THEN Escape("dateTime")
         ELSE /\ ops' = IF req.includeDateTime
                          THEN ops \o DrawDateAndTime(req)
                          ELSE ops
              /\ gpc' = IF DrawsMatches(req) THEN "matchEntry" ELSE "footer"
              /\ UNCHANGED <<req, idx, themeBackground, loads, raised, thrown, prev>>

LoadLogoWithoutCatch(ref, outcome) ==
  IF ref = "url" /\ outcome = "ok" THEN "logoImage"
  ELSE IF ref = "url" THEN "undefined" ELSE "logoGlyph"

\* opponentLogo: the image tryLoadImage resolved with, or the canvas of
\* createFallbackLogo(match.opponentShort) when it rejected or when the match
\* has no logoUrl
LoadLogo(ref, outcome) ==
  IF ref = "url" /\ outcome = "ok" THEN "logoImage" ELSE "logoGlyph"

\* The draw operations of entry i (from 0) with its logo
DrawMatchEntry(r, i, opponentLogo) ==
  <<Op("logoCircle", i + 1, itemCenterX(r, i), scheduleY(r)),
    Op(opponentLogo, i + 1, itemCenterX(r, i), scheduleY(r)),
    Op("matchDate", i + 1, itemCenterX(r, i),
       scheduleY(r) + (logoSize(r) * Unit) \div 2 + DATE_TEXT_PADDING * Unit),
    Op("matchTime", i + 1, itemCenterX(r, i),
       scheduleY(r) + (logoSize(r) * Unit) \div 2 + TIME_TEXT_PADDING * Unit)>>

\* One turn of the loop over the matches: the logo load settles, then the
\* entry is drawn. Only the await of tryLoadImage is inside a try block;
\* ctx.drawImage throws on a logo that is undefined.
MatchEntry ==
  /\ gpc = "matchEntry"
  /\ UNCHANGED notPass
  /\ \E outcome \in (IF req.nextMatches[idx + 1] = "none" THEN {"none"}
                     ELSE IF Len(loads.logo) > idx THEN {loads.logo[idx + 1]}
                     ELSE {"ok", "fail"}) :
     \E throws \in BOOLEAN :
       LET opponentLogo == LoadLogo(req.nextMatches[idx + 1], outcome)
       IN IF throws
            THEN Escape("matchEntry")
            ELSE IF opponentLogo = "undefined"
              THEN Escape("logo")
              ELSE /\ loads' = IF Len(loads.logo) > idx THEN loads
                               ELSE [loads EXCEPT !.logo = Append(@, outcome)]
                   /\ ops' = ops \o DrawMatchEntry(req, idx, opponentLogo)
                   /\ idx' = idx + 1
                   /\ gpc' = IF idx + 1 < maxMatches(req) THEN "matchEntry"
                                                          ELSE "footer"
                   /\ UNCHANGED <<req, themeBackground, raised, thrown, prev>>

\* ctx.fillText(footerText, width / 2, height - FOOTER_BOTTOM_MARGIN)
Footer ==
  /\ gpc = "footer"
  /\ gpc' = "done"
  /\ ops' = Append(ops, Op("footer", 0, CentreX(req),
                           (req.device.height - FOOTER_BOTTOM_MARGIN) * Unit))
  /\ UNCHANGED <<req, idx, themeBackground, loads, raised, thrown, prev, notPass>>

\* The same request is rendered once more (queueRender runs again with the
\* same props); every load settles as before, except that the load of the
\* patch may settle the other way
RenderAgain ==
  /\ gpc = "done"
  /\ ~prev.valid
  /\ prev' = [valid |-> TRUE, patch |-> loads.patch, raised |-> raised, ops |-> ops]
  /\ \E other \in (IF PatchRequested(req) THEN BOOLEAN ELSE {FALSE}) :
       loads' = IF other
                  THEN [loads EXCEPT !.patch = IF @ = "ok" THEN "fail" ELSE "ok"]
                  ELSE loads
  /\ gpc' = "idle"
  /\ UNCHANGED <<req, idx, ops, themeBackground, raised, thrown, notPass>>

\* ------------------------------------------------------------------------
\* tryLoadImage (imageLoader.js)
\* ------------------------------------------------------------------------
MaxCalls == 2      \* number of calls of tryLoadImage

\* What the tests on navigator.userAgent and window.MSStream find
Navigators == [iOSDevice : BOOLEAN, safari : BOOLEAN, MSStream : BOOLEAN]

\* The sources the callers pass: a path that starts with "/", a URL that
\* starts with window.location.origin, a URL of another origin, a data: URL
Sources == {"rootRelative", "pageOrigin", "external", "dataUrl"}

isIOSBrowser(n) ==
  LET isIOS == n.iOSDevice /\ ~n.MSStream
  IN isIOS \/ (n.safari /\ isIOS)

isSameOrigin(s) == s \in {"rootRelative", "pageOrigin"}

isDataUrl(s) == s = "dataUrl"

UsesCrossOriginAlways(n, s) == TRUE

\* img.crossOrigin = 'anonymous' is set for this browser and source
UsesCrossOrigin(n, s) == ~isIOSBrowser(n) /\ ~isSameOrigin(s) /\ ~isDataUrl(s)

\* The cache-busting parameter is appended to the source
CacheBuster(n, s) == isIOSBrowser(n) /\ ~isDataUrl(s)

NoImage == [crossOrigin |-> FALSE, state |-> "none"]

\* No call of tryLoadImage is followed
LoadOff ==
  /\ nav = [iOSDevice |-> FALSE, safari |-> FALSE, MSStream |-> FALSE]
  /\ src = "rootRelative"
  /\ img = NoImage
  /\ fallbackImg = NoImage
  /\ promise = "none"
  /\ attempts = <<>>
  /\ nCalls = 0

\* tryLoadImage(src): the executor of the promise runs up to img.src = ...
TryLoadImage ==
  /\ promise # "pending"
  /\ nCalls < MaxCalls
  /\ nCalls' = nCalls + 1
  /\ \E s \in Sources :
       /\ src' = s
       /\ img' = [crossOrigin |-> UsesCrossOrigin(nav, s), state |-> "loading"]
       /\ attempts' = <<[image |-> "img",
                         crossOrigin |-> UsesCrossOrigin(nav, s),
                         cacheBuster |-> CacheBuster(nav, s)]>>
  /\ fallbackImg' = NoImage
  /\ promise' = "pending"
  /\ UNCHANGED <<nav, notLoad>>

\* img.onload
ImgOnLoad ==
  /\ img.state = "loading"
  /\ img' = [img EXCEPT !.state = "loaded"]
  /\ promise' = "img"
  /\ UNCHANGED <<nav, src, fallbackImg, attempts, nCalls, notLoad>>

\* img.onerror: a second Image without crossOrigin when the first had it,
\* reject otherwise
ImgOnError ==
  /\ img.state = "loading"
  /\ img' = [img EXCEPT !.state = "error"]
  /\ IF img.crossOrigin
       THEN /\ fallbackImg' = [crossOrigin |-> FALSE, state |-> "loading"]
            /\ attempts' = Append(attempts, [image |-> "fallbackImg",
                                             crossOrigin |-> FALSE,
                                             cacheBuster |-> FALSE])
            /\ UNCHANGED promise
       ELSE /\ promise' = "rejected"
            /\ UNCHANGED <<fallbackImg, attempts>>
  /\ UNCHANGED <<nav, src, nCalls, notLoad>>

\* fallbackImg.onload
FallbackOnLoad ==
  /\ fallbackImg.state = "loading"
  /\ fallbackImg' = [fallbackImg EXCEPT !.state = "loaded"]
  /\ promise' = "fallbackImg"
  /\ UNCHANGED <<nav, src, img, attempts, nCalls, notLoad>>

\* fallbackImg.onerror
FallbackOnError ==
  /\ fallbackImg.state = "loading"
  /\ fallbackImg' = [fallbackImg EXCEPT !.state = "error"]
  /\ promise' = "rejected"
  /\ UNCHANGED <<nav, src, img, attempts, nCalls, notLoad>>

\* ------------------------------------------------------------------------
\* The download of the single-file application (App.jsx)
\* ------------------------------------------------------------------------
NoDownload == [state |-> "idle", pass |-> 0]

\* generateWallpaper(includeDateTime) of App.jsx up to its first await:
\* canvas.width = width resets the bitmap, the background and the theme
\* effects are drawn and the pass suspends on the load of the patch
LegacyGenerateWallpaper(includeDateTime) ==
  /\ nPass < MaxPasses
  /\ nPass' = nPass + 1
  /\ canvas' = [reset |-> nPass + 1, state |-> "partial", ver |-> ver, dt |-> FALSE]
  /\ passes' = passes \cup {[id |-> nPass + 1, q |-> ver, pc |-> "patch",
                             dt |-> includeDateTime]}

\* The effect on selectedBackground, selectedTheme, selectediPhoneSize and
\* isLoadingImages calls generateWallpaper(): includeDateTime is its default
LegacyEffect ==
  /\ LegacyGenerateWallpaper(TRUE)
  /\ UNCHANGED <<ver, hasCtx, dimensions, isRendering, recent, hasInitialRender,
                 rafQueue, frameList, timers, fontPending, maxStarted, lastExec,
                 doneSinceChange, captured, download, passVars, loadVars, pureVars, fontLoad, dropped, ctx>>

\* downloadWallpaper up to await generateWallpaper(false); the button is
\* disabled while isGenerating
DownloadWallpaper ==
  /\ download.state = "idle"
  /\ LegacyGenerateWallpaper(FALSE)
  /\ download' = [state |-> "generating", pass |-> nPass + 1]
  /\ UNCHANGED <<ver, hasCtx, dimensions, isRendering, recent, hasInitialRender,
                 rafQueue, frameList, timers, fontPending, maxStarted, lastExec,
                 doneSinceChange, captured, passVars, loadVars, pureVars, fontLoad, dropped, ctx>>

\* A load a pass of App.jsx awaits settles and the pass runs to its next
\* await: the patch, the title and the date/time block; the Timbers logo; the
\* opponent logos and the footer. When the pass downloadWallpaper awaits
\* returns, setTimeout(..., 1000) is armed.
LegacyResume(p) ==
  /\ IF p.pc = "patch"
       THEN /\ canvas' = Draw(canvas, p, p.dt, FALSE)
            /\ passes' = (passes \ {p}) \cup {[p EXCEPT !.pc = "timbersLogo"]}
            /\ UNCHANGED download
       ELSE IF p.pc = "timbersLogo"
         THEN /\ canvas' = Draw(canvas, p, FALSE, FALSE)
              /\ passes' = (passes \ {p}) \cup {[p EXCEPT !.pc = "opponentLogo"]}
              /\ UNCHANGED download
         ELSE /\ canvas' = Draw(canvas, p, FALSE, TRUE)
              /\ passes' = passes \ {p}
              /\ download' = IF download.state = "generating" /\ download.pass = p.id
                               THEN [download EXCEPT !.state = "waiting"]
                               ELSE download
  /\ UNCHANGED <<ver, hasCtx, dimensions, isRendering, recent, hasInitialRender,
                 rafQueue, frameList, timers, fontPending, nPass, maxStarted,
                 lastExec, doneSinceChange, captured, passVars, loadVars, pureVars, fontLoad, dropped, ctx>>

\* The 1000 ms timer of downloadWallpaper: canvas.toDataURL reads the bitmap,
\* then generateWallpaper(true) draws the preview again
LegacyCapture ==
  /\ download.state = "waiting"
  /\ captured' = [taken |-> TRUE, state |-> canvas.state, dt |-> canvas.dt,
                  afterDone |-> FALSE]
  /\ LegacyGenerateWallpaper(TRUE)
  /\ download' = NoDownload
  /\ UNCHANGED <<ver, hasCtx, dimensions, isRendering, recent, hasInitialRender,
                 rafQueue, frameList, timers, fontPending, maxStarted, lastExec,
                 doneSinceChange, passVars, loadVars, pureVars, fontLoad, dropped, ctx>>

\* The state after WallpaperCanvas has mounted and its effects have run once
SchedInit(ctxs, dims) ==
  /\ ver = 0
  /\ hasCtx \in ctxs
  /\ dimensions \in [1..(MaxVer + 1) -> dims]
  /\ isRendering = FALSE
  /\ recent = FALSE
  /\ hasInitialRender = FALSE
  /\ \E fontReady \in BOOLEAN :
       /\ fontPending = IF fontReady THEN NoVer ELSE 0
       /\ rafQueue = (IF DimsOK(0) THEN <<[q |-> 0, stored |-> TRUE]>> ELSE <<>>)
                     \o (IF fontReady THEN <<[q |-> 0, stored |-> FALSE]>> ELSE <<>>)
  /\ frameList = <<>>
  /\ timers = <<[kind |-> "forced", q |-> 0, id |-> 0, delay |-> ForcedDelay]>>
  /\ passes = {}
  /\ nPass = 0
  /\ maxStarted = NoVer
  /\ canvas = BlankCanvas
  /\ lastExec = "none"
  /\ doneSinceChange = FALSE
  /\ captured = NoCapture
  /\ PassOff
  /\ LoadOff
  /\ download = NoDownload
  /\ PureOff
  /\ fontLoad = FontOff
  /\ dropped = NoVer
  /\ ctx = NoCtx

Init == SchedInit({TRUE}, {TRUE})

Next ==
  \/ AnimationFrame
  \/ RunFrameCallback
  \/ \E i \in 1..Len(timers) : ExecuteRenderTimer(i)
  \/ TimePasses
  \/ ChangeParams(MaxVer)
  \/ \E i \in 1..Len(timers) : ForcedTimer(i)
  \/ FontSettled
  \/ \E i \in 1..Len(timers) : StartPass(i)
  \/ \E p \in passes : ResumePass(p)

Spec == Init /\ [][Next]_vars

\* The scheduler together with the export path of the application
NextExport ==
  \/ AnimationFrame
  \/ RunFrameCallback
  \/ \E i \in 1..Len(timers) : ExecuteRenderTimer(i)
  \/ TimePasses
  \/ ChangeParams(MaxExportVer)
  \/ \E i \in 1..Len(timers) : ForcedTimer(i)
  \/ FontSettled
  \/ \E i \in 1..Len(timers) : StartPass(i)
  \/ \E p \in passes : ResumePass(p)
  \/ DownloadClick
  \/ \E i \in 1..Len(timers) : CaptureCanvasToBlob(i)

SpecExport == Init /\ [][NextExport]_vars

\* The scheduler when getContext may return null and the device dimensions
\* may be non-positive
InitFatal == SchedInit(BOOLEAN, BOOLEAN)

SpecFatal == InitFatal /\ [][Next]_vars

\* ------------------------------------------------------------------------
\* One pass at a time, followed draw operation by draw operation
\* ------------------------------------------------------------------------

\* The scheduler at rest
SchedOff ==
  /\ ver = 0
  /\ hasCtx = TRUE
  /\ dimensions = [i \in 1..(MaxVer + 1) |-> TRUE]
  /\ isRendering = FALSE
  /\ recent = FALSE
  /\ hasInitialRender = TRUE
  /\ rafQueue = <<>>
  /\ frameList = <<>>
  /\ timers = <<>>
  /\ fontPending = NoVer
  /\ passes = {}
  /\ nPass = 0
  /\ maxStarted = NoVer
  /\ canvas = BlankCanvas
  /\ lastExec = "none"
  /\ doneSinceChange = FALSE
  /\ captured = NoCapture

InitPass ==
  /\ SchedOff
  /\ req \in Requests
  /\ gpc = "idle"
  /\ idx = 0
  /\ ops = <<>>
  /\ themeBackground = "none"
  /\ loads = NoLoads
  /\ raised = "none"
  /\ thrown = "none"
  /\ prev = NoPrev
  /\ LoadOff
  /\ download = NoDownload
  /\ PureOff
  /\ fontLoad = FontOff
  /\ dropped = NoVer
  /\ ctx = NoCtx

NextPass ==
  \/ GenerateWallpaper
  \/ GetThemeBackground
  \/ PaintBackground
  \/ AddThemeEffects
  \/ Patch
  \/ CustomText
  \/ DateTime
  \/ MatchEntry
  \/ Footer
  \/ RenderAgain

SpecPass == InitPass /\ [][NextPass]_vars

\* ------------------------------------------------------------------------
\* Calls of tryLoadImage, one after the other
\* ------------------------------------------------------------------------
InitLoad ==
  /\ SchedOff
  /\ PassOff
  /\ download = NoDownload
  /\ PureOff
  /\ fontLoad = FontOff
  /\ dropped = NoVer
  /\ ctx = NoCtx
  /\ nav \in Navigators
  /\ src = "rootRelative"
  /\ img = NoImage
  /\ fallbackImg = NoImage
  /\ promise = "none"
  /\ attempts = <<>>
  /\ nCalls = 0

NextLoad ==
  \/ TryLoadImage
  \/ ImgOnLoad
  \/ ImgOnError
  \/ FallbackOnLoad
  \/ FallbackOnError

SpecLoad == InitLoad /\ [][NextLoad]_vars

\* ------------------------------------------------------------------------
\* The single-file application: its preview effect and its download button
\* ------------------------------------------------------------------------
InitLegacy ==
  /\ SchedOff
  /\ PassOff
  /\ LoadOff
  /\ download = NoDownload
  /\ PureOff
  /\ fontLoad = FontOff
  /\ dropped = NoVer
  /\ ctx = NoCtx

NextLegacy ==
  \/ LegacyEffect
  \/ DownloadWallpaper
  \/ \E p \in passes : LegacyResume(p)
  \/ LegacyCapture

SpecLegacy == InitLegacy /\ [][NextLegacy]_vars

\* Nothing is scheduled, suspended or loading: only a new parameter change
\* or a download can make the component act again
Quiescent ==
  /\ rafQueue = <<>>
  /\ frameList = <<>>
  /\ timers = <<>>
  /\ fontPending = NoVer
  /\ passes = {}

\* ------------------------------------------------------------------------
\* The layout constants of one pass, as a function of the request
\* ------------------------------------------------------------------------
MaxPercent == 100   \* largest patchPositionY and matchPositionY, in percent

\* width and height of every entry of IPHONE_MODELS
AllModels == IPHONE_MODELS \cup {[width |-> 1290, height |-> 2796]}

LayoutRequests ==
  {[DefaultRequest EXCEPT !.device = d, !.patchPositionY = pp, !.matchPositionY = mp] :
     d \in AllModels, pp \in 0..MaxPercent, mp \in 0..MaxPercent}

\* timeTextY, the baseline of the time line of the match row
timeTextY(r) == scheduleY(r) + (logoSize(r) * Unit) \div 2 + TIME_TEXT_PADDING * Unit

\* The layout constants generateWallpaper computes before it draws; the
\* lengths other than LOGO_Y and calculatedMargin are in 1/Unit pixels
Layout(r) ==
  [done |-> TRUE,
   LOGO_Y |-> LOGO_Y(r),
   textY |-> TextY(r),
   calculatedMargin |-> calculatedMargin(r),
   SCHEDULE_BOTTOM_MARGIN |-> SCHEDULE_BOTTOM_MARGIN(r),
   scheduleY |-> scheduleY(r),
   timeTextY |-> timeTextY(r)]

ComputeLayout ==
  /\ ~result.done
  /\ result' = Layout(arg)
  /\ UNCHANGED <<arg, notPure>>

InitLayout ==
  /\ SchedOff
  /\ PassOff
  /\ LoadOff
  /\ download = NoDownload
  /\ arg \in LayoutRequests
  /\ result = NoResult
  /\ fontLoad = FontOff
  /\ dropped = NoVer
  /\ ctx = NoCtx

NextLayout == ComputeLayout

SpecLayout == InitLayout /\ [][NextLayout]_vars

\* ------------------------------------------------------------------------
\* The date and the time under a match logo, as functions of the match.
\* A string is the sequence of its characters, a number is <<n>> and NaN is
\* <<>>; instants are minutes since 1970-01-01T00:00Z.
\* ------------------------------------------------------------------------
Digits == <<"0", "1", "2", "3", "4", "5", "6", "7", "8", "9">>

IsDigit(c) == \E n \in 1..10 : Digits[n] = c

DigitValue(c) == (CHOOSE n \in 1..10 : Digits[n] = c) - 1

\* The characters \s matches and trim removes, as far as they occur: the
\* space, and the narrow no-break space newer ICU data puts before AM and PM
WhiteSpace == {" ", "nnbsp"}

NaN == <<>>

\* String(undefined)
Undefined == <<"u", "n", "d", "e", "f", "i", "n", "e", "d">>

TBD == <<"T", "B", "D">>

\* str.split(sep) for a separator of one character
RECURSIVE Split(_, _)
Split(str, sep) ==
  IF \E k \in 1..Len(str) : str[k] = sep
    THEN LET k == CHOOSE k \in 1..Len(str) :
                    str[k] = sep /\ \A j \in 1..(k - 1) : str[j] # sep
         IN <<SubSeq(str, 1, k - 1)>> \o Split(SubSeq(str, k + 1, Len(str)), sep)
    ELSE <<str>>

\* list[i] of JavaScript (i from 0), as parseInt reads it
At(list, i) == IF i + 1 <= Len(list) THEN list[i + 1] ELSE Undefined

RECURSIVE LeadingDigits(_, _)
LeadingDigits(str, acc) ==
  IF str # <<>> /\ IsDigit(str[1])
    THEN LeadingDigits(Tail(str), 10 * acc + DigitValue(str[1]))
    ELSE acc

RECURSIVE TrimStart(_)
TrimStart(str) ==
  IF str # <<>> /\ str[1] \in WhiteSpace THEN TrimStart(Tail(str)) ELSE str

\* parseInt(str, 10) of a string without sign
ParseInt(str) ==
  LET s == TrimStart(str)
  IN IF s # <<>> /\ IsDigit(s[1]) THEN <<LeadingDigits(s, 0)>> ELSE NaN

\* Days from 1970-01-01 to the day d of month m (from 1) of year y
DaysFromCivil(y, m, d) ==
  LET yy == IF m <= 2 THEN y - 1 ELSE y
      era == yy \div 400
      yoe == yy - era * 400
      doy == (153 * (IF m > 2 THEN m - 3 ELSE m + 9) + 2) \div 5 + d - 1
      doe == yoe * 365 + yoe \div 4 - yoe \div 100 + doy
  IN era * 146097 + doe - 719468

\* Year, month (from 1) and day of the day z days after 1970-01-01
CivilFromDays(z) ==
  LET zz == z + 719468
      era == zz \div 146097
      doe == zz - era * 146097
      yoe == (doe - doe \div 1460 + doe \div 36524 - doe \div 146096) \div 365
      doy == doe - (365 * yoe + yoe \div 4 - yoe \div 100)
      mp == (5 * doy + 2) \div 153
      m == IF mp < 10 THEN mp + 3 ELSE mp - 9
  IN [year |-> yoe + era * 400 + (IF m <= 2 THEN 1 ELSE 0),
      month |-> m,
      day |-> doy - (153 * mp + 2) \div 5 + 1]

\* Date.UTC(year, month, day, hours, minutes) with month from 0: NaN when an
\* argument is NaN, years 0 to 99 are 1900 to 1999, months beyond 11 carry
DateUTC(year, month, day, hours, minutes) ==
  IF NaN \in {year, month, day, hours, minutes}
    THEN NaN
    ELSE LET y == IF year[1] \in 0..99 THEN 1900 + year[1] ELSE year[1]
             ym == y + month[1] \div 12
             mn == month[1] % 12
         IN <<(DaysFromCivil(ym, mn + 1, 1) + day[1] - 1) * 1440
                + hours[1] * 60 + minutes[1]>>

\* The first Sunday of month m of year y (1970-01-01 was a Thursday)
FirstSunday(y, m) ==
  CHOOSE d \in 1..7 : (DaysFromCivil(y, m, d) + 4) % 7 = 0

\* The time zones of viewers, and their offsets from UTC in minutes at the
\* instant t: Pacific time is UTC-7 from 10:00Z on the second Sunday of March
\* to 09:00Z on the first Sunday of November, else UTC-8
ViewerZones == {"America/Los_Angeles", "UTC", "Asia/Tokyo"}

ZoneOffset(zone, t) ==
  CASE zone = "UTC" -> 0
    [] zone = "Asia/Tokyo" -> 540
    [] zone = "America/Los_Angeles" ->
         LET y == CivilFromDays(t \div 1440).year
             start == (DaysFromCivil(y, 3, FirstSunday(y, 3) + 7)) * 1440 + 600
             end == (DaysFromCivil(y, 11, FirstSunday(y, 11))) * 1440 + 540
         IN IF t >= start /\ t < end THEN 0 - 420 ELSE 0 - 480

\* The calendar date and the time of day of the instant t in a zone
LocalDate(t, zone) == CivilFromDays((t + ZoneOffset(zone, t)) \div 1440)

LocalMinutes(t, zone) == (t + ZoneOffset(zone, t)) % 1440

\* date.getMonth() and date.getDate(): in the time zone of the viewer
GetMonth(date, zone) == IF date = NaN THEN NaN ELSE <<LocalDate(date[1], zone).month - 1>>

GetDate(date, zone) == IF date = NaN THEN NaN ELSE <<LocalDate(date[1], zone).day>>

\* String(n) of a natural number
RECURSIVE Decimal(_)
Decimal(n) ==
  IF n < 10 THEN <<Digits[n + 1]>> ELSE Decimal(n \div 10) \o <<Digits[(n % 10) + 1]>>

\* String(x) of a number inside a template literal
NumberToString(x) == IF x = NaN THEN <<"N", "a", "N">> ELSE Decimal(x[1])

\* toLocaleTimeString in the zone of the viewer instead of Pacific time
ToLocaleTimeStringOfViewer(date, zone, space) ==
  IF date = NaN
    THEN <<"I", "n", "v", "a", "l", "i", "d", " ", "D", "a", "t", "e">>
    ELSE LET mod == LocalMinutes(date[1], zone)
             h == mod \div 60
             mi == mod % 60
         IN Decimal(IF h % 12 = 0 THEN 12 ELSE h % 12)
              \o <<":", Digits[mi \div 10 + 1], Digits[(mi % 10) + 1], space>>
              \o (IF h < 12 THEN <<"A", "M">> ELSE <<"P", "M">>)

\* date.toLocaleTimeString('en-US', {hour: 'numeric', minute: '2-digit',
\* hour12: true, timeZone: 'America/Los_Angeles'}): h:mm AM or h:mm PM after
\* the space of the ICU data in use, "Invalid Date" for an invalid date
ToLocaleTimeString(date, zone, space) ==
  IF date = NaN
    THEN <<"I", "n", "v", "a", "l", "i", "d", " ", "D", "a", "t", "e">>
    ELSE LET mod == LocalMinutes(date[1], "America/Los_Angeles")
             h == mod \div 60
             mi == mod % 60
         IN Decimal(IF h % 12 = 0 THEN 12 ELSE h % 12)
              \o <<":", Digits[mi \div 10 + 1], Digits[(mi % 10) + 1], space>>
              \o (IF h < 12 THEN <<"A", "M">> ELSE <<"P", "M">>)

\* str.replace(pattern, by): the first occurrence of the string pattern
Replace(str, pattern, by) ==
  LET n == Len(pattern)
      Hit(k) == k + n - 1 <= Len(str) /\ SubSeq(str, k, k + n - 1) = pattern
  IN IF \E k \in 1..Len(str) : Hit(k)
       THEN LET k == CHOOSE k \in 1..Len(str) : Hit(k) /\ \A j \in 1..(k - 1) : ~Hit(j)
            IN SubSeq(str, 1, k - 1) \o by \o SubSeq(str, k + n, Len(str))
       ELSE str

\* str.replace(/\s?(AM|PM)$/i, m => m.trim().toLowerCase().charAt(0))
ReplaceDayPeriod(str) ==
  LET n == Len(str)
      ends == n >= 2 /\ str[n] \in {"M", "m"} /\ str[n - 1] \in {"A", "a", "P", "p"}
  IN IF ends
       THEN LET from == IF n >= 3 /\ str[n - 2] \in WhiteSpace THEN n - 2 ELSE n - 1
            IN SubSeq(str, 1, from - 1)
                 \o <<IF str[n - 1] \in {"A", "a"} THEN "a" ELSE "p">>
       ELSE str

\* shortDate of a match: match.date is undefined, a number or a string
ShortDate(match, zone) ==
  IF match.date.type = "undefined" \/ match.date = [type |-> "string", chars |-> <<>>]
    THEN TBD
    ELSE IF match.date.type # "string"
      THEN TBD   \* match.date.split is not a function: caught
      ELSE LET parts == Split(match.date.chars, " ")
               dateParts == Split(parts[1], "-")
               month0 == ParseInt(At(dateParts, 1))
               matchDate == DateUTC(ParseInt(At(dateParts, 0)),
                                    IF month0 = NaN THEN NaN ELSE <<month0[1] - 1>>,
                                    ParseInt(At(dateParts, 2)), <<0>>, <<0>>)
               month == GetMonth(matchDate, zone)
               day == GetDate(matchDate, zone)
           IN NumberToString(IF month = NaN THEN NaN ELSE <<month[1] + 1>>)
                \o <<"/">> \o NumberToString(day)

\* shortTime of a match
ShortTime(match, zone, space) ==
  IF match.time.type = "undefined" \/ match.time = [type |-> "string", chars |-> <<>>]
    THEN TBD
    ELSE IF match.time.type # "string"
      THEN TBD   \* match.time.split is not a function: caught
      ELSE LET parts == Split(match.time.chars, " ")
           IN IF Len(parts) < 2
                THEN TBD
                ELSE IF match.date.type # "string"
                  THEN TBD   \* match.date.split throws: caught
                  ELSE LET dateParts == Split(match.date.chars, "-")
                           timeParts == Split(parts[2], ":")
                           month0 == ParseInt(At(dateParts, 1))
                           matchDateTime ==
                             DateUTC(ParseInt(At(dateParts, 0)),
                                     IF month0 = NaN THEN NaN ELSE <<month0[1] - 1>>,
                                     ParseInt(At(dateParts, 2)),
                                     ParseInt(At(timeParts, 0)),
                                     ParseInt(At(timeParts, 1)))
                           pacificTime == ToLocaleTimeString(matchDateTime, zone, space)
                       IN ReplaceDayPeriod(Replace(pacificTime, <<":", "0", "0">>, <<>>))

\* fixture.starting_at of schedule.json for a kickoff: YYYY-MM-DD HH:MM:SS
StartingAt(k) ==
  <<Digits[k.year \div 1000 + 1], Digits[((k.year \div 100) % 10) + 1],
    Digits[((k.year \div 10) % 10) + 1], Digits[(k.year % 10) + 1], "-",
    Digits[k.month \div 10 + 1], Digits[(k.month % 10) + 1], "-",
    Digits[k.day \div 10 + 1], Digits[(k.day % 10) + 1], " ",
    Digits[k.hour \div 10 + 1], Digits[(k.hour % 10) + 1], ":",
    Digits[k.minute \div 10 + 1], Digits[(k.minute % 10) + 1], ":", "0", "0">>

\* Kickoffs in UTC: days around the changes of Pacific time, of the month and
\* of the year, every hour, on the hour and off it
KickoffDays == {<<2025, 3, 9>>, <<2025, 7, 6>>, <<2025, 11, 2>>, <<2025, 12, 31>>, <<2026, 1, 1>>}

KickoffMinutes == {0, 5, 30}

Kickoffs ==
  {[valid |-> TRUE, year |-> ymd[1], month |-> ymd[2], day |-> ymd[3], hour |-> h, minute |-> mi] :
     ymd \in KickoffDays, h \in 0..23, mi \in KickoffMinutes}

NoKickoff == [valid |-> FALSE]

\* Values of starting_at that are no timestamp: undefined, the empty string,
\* a number, TBD, a date without time, an ISO timestamp, two words
NoTimestamps ==
  {[type |-> "undefined"], [type |-> "number"], [type |-> "string", chars |-> <<>>],
   [type |-> "string", chars |-> TBD],
   [type |-> "string", chars |-> <<"2", "0", "2", "5", "-", "0", "7", "-", "0", "6">>],
   [type |-> "string", chars |-> <<"2", "0", "2", "5", "-", "0", "7", "-", "0", "6", "T",
                                   "0", "2", ":", "3", "0", ":", "0", "0", "Z">>],
   [type |-> "string", chars |-> <<"J", "u", "l", "y", " ", "6">>]}

\* The match getNext4Matches builds from a fixture: date and time are both
\* starting_at
MatchOf(startingAt) == [date |-> startingAt, time |-> startingAt]

MatchInputs ==
  {[match |-> MatchOf([type |-> "string", chars |-> StartingAt(k)]), kickoff |-> k,
    zone |-> z, space |-> sp] : k \in Kickoffs, z \in ViewerZones, sp \in WhiteSpace}
  \cup {[match |-> MatchOf(v), kickoff |-> NoKickoff, zone |-> z, space |-> sp] :
          v \in NoTimestamps, z \in ViewerZones, sp \in WhiteSpace}

\* The two strings fillText draws under the logo of the match
FormatMatch ==
  /\ ~result.done
  /\ result' = [done |-> TRUE,
                shortDate |-> ShortDate(arg.match, arg.zone),
                shortTime |-> ShortTime(arg.match, arg.zone, arg.space)]
  /\ UNCHANGED <<arg, notPure>>

InitFormat ==
  /\ SchedOff
  /\ PassOff
  /\ LoadOff
  /\ download = NoDownload
  /\ arg \in MatchInputs
  /\ result = NoResult
  /\ fontLoad = FontOff
  /\ dropped = NoVer
  /\ ctx = NoCtx

NextFormat == FormatMatch

SpecFormat == InitFormat /\ [][NextFormat]_vars

\* ------------------------------------------------------------------------
\* The custom text: the string fillText is given and its font size, as
\* functions of customText, selectedFont and fontSizeMultiplier
\* ------------------------------------------------------------------------
MaxTextLength == 52   \* longest customText

MAX_LENGTH == 50

CapsOnlyFonts == {"Lethal Slime", "Another Danger", "Rose", "Urban Jungle"}

\* The fonts of fontOptions, and the default of the prop
Fonts == CapsOnlyFonts \cup {"Avenir", "Verdana", "Arial"}

\* fontSizeMultiplier in twentieths: the slider goes from 0.7 to 1.5 by 0.05
FontSizeMultipliers == 14..30

\* customText: the first n characters of a text that repeats a few characters
TextUnits == {<<"a">>, <<"P", "o", "ß", " ">>, <<"T", "1">>}

Texts ==
  {[i \in 1..n |-> unit[((i - 1) % Len(unit)) + 1]] : unit \in TextUnits, n \in 0..MaxTextLength}

\* c.toUpperCase() of one character: ß becomes SS
UpperCaseOf(c) ==
  CASE c = "a" -> <<"A">>
    [] c = "o" -> <<"O">>
    [] c = "ß" -> <<"S", "S">>
    [] OTHER -> <<c>>

RECURSIVE ToUpperCase(_)
ToUpperCase(str) ==
  IF str = <<>> THEN <<>> ELSE UpperCaseOf(Head(str)) \o ToUpperCase(Tail(str))

\* str.substring(0, n)
Substring0(str, n) == SubSeq(str, 1, Min2(n, Len(str)))

\* displayText with the upper case taken before the truncation
DisplayTextUpperFirst(customText, selectedFont) ==
  IF selectedFont \in CapsOnlyFonts
    THEN Substring0(ToUpperCase(customText), MAX_LENGTH)
    ELSE Substring0(customText, MAX_LENGTH)

\* displayText, the string strokeText and fillText are given
DisplayText(customText, selectedFont) ==
  LET displayText == IF Len(customText) > MAX_LENGTH
                       THEN Substring0(customText, MAX_LENGTH)
                       ELSE customText
  IN IF selectedFont \in CapsOnlyFonts THEN ToUpperCase(displayText) ELSE displayText

\* The size of a font for a length, looked up in
\* <<(<= 8), (<= 12), (<= 16), (<= 20), (<= 25), (<= 30), (else)>>
Bucket(sizes, length) ==
  CASE length <= 8 -> sizes[1]
    [] length > 8 /\ length <= 12 -> sizes[2]
    [] length > 12 /\ length <= 16 -> sizes[3]
    [] length > 16 /\ length <= 20 -> sizes[4]
    [] length > 20 /\ length <= 25 -> sizes[5]
    [] length > 25 /\ length <= 30 -> sizes[6]
    [] OTHER -> sizes[7]

\* fontSize before the multiplier, with the first two sizes of Lethal Slime
\* exchanged
BaseFontSizeExchanged(selectedFont, length) ==
  CASE selectedFont = "Lethal Slime" -> Bucket(<<50, 60, 44, 38, 32, 28, 24>>, length)
    [] selectedFont = "Another Danger" -> Bucket(<<75, 65, 58, 52, 46, 42, 38>>, length)
    [] selectedFont = "Rose" -> Bucket(<<78, 72, 66, 60, 54, 50, 46>>, length)
    [] selectedFont = "Urban Jungle" -> Bucket(<<82, 74, 68, 62, 56, 52, 48>>, length)
    [] OTHER -> IF length > 40 THEN 58 ELSE IF length > 30 THEN 62 ELSE 68

\* fontSize before the multiplier
BaseFontSize(selectedFont, length) ==
  CASE selectedFont = "Lethal Slime" -> Bucket(<<60, 50, 44, 38, 32, 28, 24>>, length)
    [] selectedFont = "Another Danger" -> Bucket(<<75, 65, 58, 52, 46, 42, 38>>, length)
    [] selectedFont = "Rose" -> Bucket(<<78, 72, 66, 60, 54, 50, 46>>, length)
    [] selectedFont = "Urban Jungle" -> Bucket(<<82, 74, 68, 62, 56, 52, 48>>, length)
    [] OTHER -> IF length > 40 THEN 58 ELSE IF length > 30 THEN 62 ELSE 68

\* Math.round(fontSize * fontSizeMultiplier), the multiplier in twentieths
FontSize(selectedFont, length, fontSizeMultiplier) ==
  (2 * BaseFontSize(selectedFont, length) * fontSizeMultiplier + 20) \div 40

\* The default of the prop customText
DEFAULT_TEXT ==
  <<"P", "O", "R", "T", "L", "A", "N", "D", " ", "T", "I", "M", "B", "E", "R", "S">>

\* The props of the text: customText is given, or left out (undefined)
TextInputs ==
  [customTextGiven : {TRUE}, customText : Texts, selectedFont : Fonts,
   fontSizeMultiplier : FontSizeMultipliers]
    \cup [customTextGiven : {FALSE}, customText : {<<>>}, selectedFont : Fonts,
          fontSizeMultiplier : FontSizeMultipliers]

\* customText inside the component: the default replaces undefined only
CustomTextProp(props) ==
  IF props.customTextGiven THEN props.customText ELSE DEFAULT_TEXT

DrawCustomText ==
  /\ ~result.done
  /\ result' = [done |-> TRUE,
                fontSize |-> FontSize(arg.selectedFont, Len(CustomTextProp(arg)),
                                      arg.fontSizeMultiplier),
                fillText |-> DisplayText(CustomTextProp(arg), arg.selectedFont)]
  /\ UNCHANGED <<arg, notPure>>

InitText ==
  /\ SchedOff
  /\ PassOff
  /\ LoadOff
  /\ download = NoDownload
  /\ arg \in TextInputs
  /\ result = NoResult
  /\ fontLoad = FontOff
  /\ dropped = NoVer
  /\ ctx = NoCtx

NextText == DrawCustomText

SpecText == InitText /\ [][NextText]_vars

\* ------------------------------------------------------------------------
\* The match row: which matches are drawn and where, as a function of the
\* request. A match is the day of its kickoff.
\* ------------------------------------------------------------------------
MaxRow == 7   \* longest nextMatches list of a row

\* Lists of n matches in the order of their kickoffs, in rotations of that
\* order and in the reverse order
Orders(n) ==
  {[i \in 1..n |-> ((i + k - 1) % n) + 1] : k \in 0..(n - 1)}
    \cup {[i \in 1..n |-> n + 1 - i]}

RowRequests ==
  {[DefaultRequest EXCEPT !.device = d, !.nextMatches = list] :
     d \in AllModels, list \in UNION {Orders(n) : n \in 0..MaxRow}}

\* The loop over the matches: the match and itemCenterX of every entry
RowEntries(r) ==
  IF DrawsMatches(r)
    THEN [k \in 1..maxMatches(r) |-> [match |-> r.nextMatches[k],
                                      itemCenterX |-> itemCenterX(r, k - 1)]]
    ELSE <<>>

DrawRow ==
  /\ ~result.done
  /\ result' = [done |-> TRUE, row |-> RowEntries(arg)]
  /\ UNCHANGED <<arg, notPure>>

InitRow ==
  /\ SchedOff
  /\ PassOff
  /\ LoadOff
  /\ download = NoDownload
  /\ arg \in RowRequests
  /\ result = NoResult
  /\ fontLoad = FontOff
  /\ dropped = NoVer
  /\ ctx = NoCtx

NextRow == DrawRow

SpecRow == InitRow /\ [][NextRow]_vars

\* ------------------------------------------------------------------------
\* The font loading effect: the runs of loadFonts, one per run of the effect
\* ------------------------------------------------------------------------
MaxFontRuns == 2   \* number of times the effects run (mount and changes)

MAX_RETRIES == 3

RETRY_DELAY == 1000

\* selectedFont: a font getFontUrl has a URL for, and a system font
LoadedFonts == {"Rose", "Arial"}

HasFontUrl(font) == font = "Rose"

\* while (retryCount < MAX_RETRIES ...) with no limit
ShouldRetryForever(retryCount) == TRUE

\* retryCount < MAX_RETRIES, of the loop and of the delay before the next turn
ShouldRetry(retryCount) == retryCount < MAX_RETRIES

\* loadFonts up to its first await: it returns true at once for a system font
\* and for a font of fontsLoaded, else it calls loadFont
NewRun(font, fontsLoaded) ==
  IF ~HasFontUrl(font) \/ font \in fontsLoaded
    THEN [font |-> font, pc |-> "returned", retryCount |-> 0, attempts |-> 0,
          delays |-> <<>>, mounted |-> TRUE, success |-> "true", queued |-> FALSE]
    ELSE [font |-> font, pc |-> "loading", retryCount |-> 0, attempts |-> 1,
          delays |-> <<>>, mounted |-> TRUE, success |-> "pending", queued |-> FALSE]

\* The effects run, at mount and after a change of their dependencies: the
\* cleanup of the font loading effect clears mounted of the run before, the
\* effect calls loadFonts, and the main rendering effect requests a frame for
\* queueRender whether the font is ready or not
RunFontEffects ==
  /\ Len(fontLoad.runs) < MaxFontRuns
  /\ \E font \in LoadedFonts :
       fontLoad' =
         [fontLoad EXCEPT
            !.runs = Append([k \in 1..Len(@) |-> [@[k] EXCEPT !.mounted = FALSE]],
                            NewRun(font, fontLoad.fontsLoaded)),
            !.mainFrames = @ + 1]
  /\ UNCHANGED notFont

\* await loadFont(...) settles: true, or false after an error or the timeout
\* of 10 seconds; loadFont catches every exception
LoadFontSettles(i) ==
  /\ fontLoad.runs[i].pc = "loading"
  /\ \E loaded \in BOOLEAN :
       fontLoad' =
         IF loaded
           THEN [fontLoad EXCEPT !.fontsLoaded = @ \cup {fontLoad.runs[i].font},
                                 !.runs[i].pc = "returned",
                                 !.runs[i].success = "true"]
           ELSE IF ShouldRetry(fontLoad.runs[i].retryCount + 1)
             THEN [fontLoad EXCEPT
                     !.runs[i].retryCount = @ + 1,
                     !.runs[i].pc = "waiting",
                     !.runs[i].delays = Append(@, (fontLoad.runs[i].retryCount + 1) * RETRY_DELAY)]
             ELSE [fontLoad EXCEPT !.runs[i].retryCount = @ + 1,
                                   !.runs[i].pc = "returned",
                                   !.runs[i].success = "false"]
  /\ UNCHANGED notFont

\* The delay before the next turn of the loop is over: the loop goes on while
\* the effect is mounted
RetryDelayElapses(i) ==
  /\ fontLoad.runs[i].pc = "waiting"
  /\ fontLoad' =
       IF ShouldRetry(fontLoad.runs[i].retryCount) /\ fontLoad.runs[i].mounted
         THEN [fontLoad EXCEPT !.runs[i].pc = "loading", !.runs[i].attempts = @ + 1]
         ELSE [fontLoad EXCEPT !.runs[i].pc = "returned", !.runs[i].success = "false"]
  /\ UNCHANGED notFont

\* loadFonts().then(...): nothing when the effect was cleaned up, else both
\* branches reset the canvas and request a frame for queueRender
LoadFontsThen(i) ==
  /\ fontLoad.runs[i].pc = "returned"
  /\ fontLoad' = [fontLoad EXCEPT !.runs[i].pc = "done",
                                  !.runs[i].queued = fontLoad.runs[i].mounted]
  /\ UNCHANGED notFont

InitFont ==
  /\ SchedOff
  /\ PassOff
  /\ LoadOff
  /\ download = NoDownload
  /\ PureOff
  /\ dropped = NoVer
  /\ ctx = NoCtx
  /\ \E fontsLoaded \in SUBSET {"Rose"} :
       fontLoad = [runs |-> <<>>, mainFrames |-> 0, fontsLoaded |-> fontsLoaded]

NextFont ==
  \/ RunFontEffects
  \/ \E i \in 1..Len(fontLoad.runs) : LoadFontSettles(i)
  \/ \E i \in 1..Len(fontLoad.runs) : RetryDelayElapses(i)
  \/ \E i \in 1..Len(fontLoad.runs) : LoadFontsThen(i)

SpecFont == InitFont /\ [][NextFont]_vars

\* ------------------------------------------------------------------------
\* The scheduler, remembering the triggers queueRender turns away
\* ------------------------------------------------------------------------

\* The frame calls its next callback; when queueRender returns at its first
\* test (isRendering is set) the version of the closure is noted
RunFrameCallbackNoting ==
  /\ frameList # <<>>
  /\ QueueRender(Head(frameList).q, Tail(frameList))
  /\ dropped' = IF isRendering /\ Head(frameList).q > dropped
                  THEN Head(frameList).q
                  ELSE dropped
  /\ UNCHANGED <<ver, hasCtx, dimensions, fontPending, passes, maxStarted,
                 doneSinceChange, captured>>
  /\ UNCHANGED <<passVars, loadVars, download, pureVars, fontLoad, ctx>>

NextQueue ==
  \/ AnimationFrame
  \/ RunFrameCallbackNoting
  \/ \E i \in 1..Len(timers) : ExecuteRenderTimer(i)
  \/ TimePasses
  \/ ChangeParams(MaxVer)
  \/ \E i \in 1..Len(timers) : ForcedTimer(i)
  \/ FontSettled
  \/ \E i \in 1..Len(timers) : StartPass(i)
  \/ \E p \in passes : ResumePass(p)

SpecQueue == Init /\ [][NextQueue]_vars

\* ------------------------------------------------------------------------
\* The scheduler on a 2D context that has no setTransform, the environment
\* the try/catch at the end of resetCanvasState is written for: resetCanvas
\* throws a TypeError at its first statement
\* ------------------------------------------------------------------------

\* queueRender of the closure of version q: resetCanvasState has resized the
\* canvas and filled it black when its call of resetCanvas throws; the
\* exception leaves queueRender before executeRender is scheduled
QueueRenderThrowing(q, rest) ==
  IF ~isRendering /\ ~recent /\ hasCtx /\ DimsOK(q)
    THEN /\ frameList' = rest
         /\ recent' = TRUE
         /\ isRendering' = TRUE
         /\ canvas' = BlankCanvas
         /\ UNCHANGED <<hasInitialRender, rafQueue, timers, nPass, lastExec>>
    ELSE QueueRender(q, rest)

RunFrameCallbackThrowing ==
  /\ UNCHANGED notSched
  /\ frameList # <<>>
  /\ QueueRenderThrowing(Head(frameList).q, Tail(frameList))
  /\ UNCHANGED <<ver, hasCtx, dimensions, fontPending, passes, maxStarted,
                 doneSinceChange, captured>>

\* The effects after a React render with props of version v: the then-callback
\* of loadFonts sets hasInitialRender, and its resetCanvas throws before
\* requestAnimationFrame(queueRender) when there is a context
RunEffectsThrowing(v, fontReady, raf) ==
  LET afterMain == IF DimsOK(v)
                     THEN Append(CancelStored(raf), [q |-> v, stored |-> TRUE])
                     ELSE raf
  IN /\ timers' = Append(ClearForced(timers), [kind |-> "forced", q |-> v, id |-> 0,
                                               delay |-> ForcedDelay])
     /\ fontPending' = IF fontReady THEN NoVer ELSE v
     /\ hasInitialRender' = IF DimsOK(v) \/ fontReady THEN FALSE ELSE hasInitialRender
     /\ rafQueue' = IF fontReady /\ ~hasCtx
                      THEN Append(afterMain, [q |-> v, stored |-> FALSE])
                      ELSE afterMain

ChangeParamsThrowing ==
  /\ UNCHANGED notSched
  /\ frameList = <<>>
  /\ ver < MaxVer
  /\ ver' = ver + 1
  /\ \E fontReady \in BOOLEAN : RunEffectsThrowing(ver + 1, fontReady, rafQueue)
  /\ doneSinceChange' = FALSE
  /\ UNCHANGED <<hasCtx, dimensions, isRendering, recent, frameList, passes,
                 nPass, maxStarted, canvas, lastExec, captured>>

\* loadFonts() settles
FontSettledThrowing ==
  /\ UNCHANGED notSched
  /\ frameList = <<>>
  /\ fontPending # NoVer
  /\ fontPending' = NoVer
  /\ hasInitialRender' = FALSE
  /\ rafQueue' = IF hasCtx
                   THEN rafQueue
                   ELSE Append(rafQueue, [q |-> fontPending, stored |-> FALSE])
  /\ UNCHANGED <<ver, hasCtx, dimensions, isRendering, recent, frameList,
                 timers, passes, nPass, maxStarted, canvas, lastExec,
                 doneSinceChange, captured>>

NextThrow ==
  \/ AnimationFrame
  \/ RunFrameCallbackThrowing
  \/ \E i \in 1..Len(timers) : ExecuteRenderTimer(i)
  \/ TimePasses
  \/ ChangeParamsThrowing
  \/ \E i \in 1..Len(timers) : ForcedTimer(i)
  \/ FontSettledThrowing

SpecThrow == InitFatal /\ [][NextThrow]_vars

\* ------------------------------------------------------------------------
\* One pass of generateWallpaper, statement by statement: the state of the
\* 2D context, the image loads it awaits and the calls it makes, in order.
\* No call of the canvas API in addThemeEffects or drawDateAndTime can throw
\* on a context with positive dimensions; the exceptions followed are those
\* of a malformed catalog gradient and of a match that is null.
\* ------------------------------------------------------------------------

\* The props of the pass: the request on the default device, and the font
StyleRequests ==
  {r @@ [selectedFont |-> f] :
     r \in {q \in Requests : /\ q.device = DefaultRequest.device
                             /\ q.patchPositionY = DefaultRequest.patchPositionY},
     f \in Fonts}

\* What a call finds: the step of generateWallpaper that makes it, its kind
\* (draw, text, start and settle of a load, suspend, return, end), the entry
\* of the match row, and the state of the context
Event(c, step, kind, i) ==
  [step |-> step, kind |-> kind, i |-> i, shadow |-> c.shadow,
   globalAlpha |-> c.globalAlpha, letterSpacing |-> c.letterSpacing,
   loading |-> c.loading]

Call(c, step, kind, i) == [c EXCEPT !.log = Append(@, Event(c, step, kind, i))]

clearTextEffectsKeepingShadow(c) ==
  [c EXCEPT !.globalAlpha = 100, !.letterSpacing = 0]

\* clearTextEffects(ctx): no shadow, globalAlpha 1, letterSpacing 0px
clearTextEffects(c) ==
  [c EXCEPT !.shadow = FALSE, !.globalAlpha = 100, !.letterSpacing = 0]

\* const x = await tryLoadImage(...): the load starts and the pass suspends
StartLoad(c, step, i) ==
  Call(Call([c EXCEPT !.loading = @ \cup {<<step, i>>}], step, "start", i),
       step, "suspend", i)

SettleLoadUnawaited(c, step, i) == Call(c, step, "settle", i)

\* The promise of tryLoadImage settles and the pass resumes
SettleLoad(c, step, i) ==
  Call([c EXCEPT !.loading = @ \ {<<step, i>>}], step, "settle", i)

\* The step generateWallpaper goes on with, text before patch
ContinueTextFirst(pc, r, i) ==
  CASE pc = "background" -> "effects"
    [] pc = "effects" -> "customText"
    [] pc = "customText" -> "patch"
    [] pc = "patch" -> "dateTime"
    [] pc = "dateTime" -> IF DrawsMatches(r) THEN "logo" ELSE "footer"
    [] pc = "entry" -> IF i + 1 < maxMatches(r) THEN "logo" ELSE "footer"
    [] OTHER -> "done"

\* The step generateWallpaper goes on with when the step at pc is complete
Continue(pc, r, i) ==
  CASE pc = "background" -> "effects"
    [] pc = "effects" -> "patch"
    [] pc = "patch" -> "customText"
    [] pc = "customText" -> "dateTime"
    [] pc = "dateTime" -> IF DrawsMatches(r) THEN "logo" ELSE "footer"
    [] pc = "entry" -> IF i + 1 < maxMatches(r) THEN "logo" ELSE "footer"
    [] OTHER -> "done"

\* generateWallpaper up to await getThemeBackground: canvas.width and
\* resetCanvas put the context in its default state, the canvas is filled
\* with black, and the background image is requested when the theme has one
BeginPass ==
  /\ ctx.pc = "idle"
  /\ LET reset == Call(clearTextEffects(ctx), "reset", "draw", 0)
     IN ctx' = [(IF ThemeLoadsImage(req)
                   THEN StartLoad(reset, "background", 0)
                   ELSE Call(reset, "background", "suspend", 0))
                EXCEPT !.pc = "background"]
  /\ UNCHANGED notCtx

\* await getThemeBackground settles (or rejects, on a gradient whose color
\* stops addColorStop refuses) and the background is painted
BackgroundStep ==
  /\ ctx.pc = "background"
  /\ \E throws \in BOOLEAN :
       IF throws /\ req.catalogEntry.type = "gradient"
         THEN ctx' = [Call(ctx, "background", "end", 0) EXCEPT !.pc = "rejected"]
         ELSE LET settled == IF ThemeLoadsImage(req)
                               THEN SettleLoad(ctx, "background", 0)
                               ELSE ctx
              IN ctx' = [Call(settled, "background", "draw", 0)
                         EXCEPT !.pc = Continue("background", req, 0)]
  /\ UNCHANGED notCtx

\* globalAlpha while the overlay of a case of addThemeEffects is drawn
OverlayAlpha(effectType) ==
  CASE effectType = "providence" -> 10
    [] effectType = "rose" -> 15
    [] effectType = "timber" -> 5
    [] effectType = "forest" -> 10
    [] OTHER -> 100

\* addThemeEffects(selectedTheme, ctx, width, height, backgroundThemes)
ThemeEffectsStep ==
  /\ ctx.pc = "effects"
  /\ LET effectType == EffectType(req)
         drawn == IF effectType = "none"
                    THEN ctx
                    ELSE [Call([ctx EXCEPT !.globalAlpha = OverlayAlpha(effectType)],
                               "effects", "draw", 0)
                          EXCEPT !.globalAlpha = 100]
     IN ctx' = [Call(drawn, "effects", "return", 0)
                EXCEPT !.pc = Continue("effects", req, 0)]
  /\ UNCHANGED notCtx

\* if (showPatchImage && selectedBackground) { try { await tryLoadImage(...)
PatchStart ==
  /\ ctx.pc = "patch"
  /\ ctx' = IF PatchRequested(req)
              THEN [StartLoad(ctx, "patch", 0) EXCEPT !.pc = "awaitPatch"]
              ELSE [ctx EXCEPT !.pc = Continue("patch", req, 0)]
  /\ UNCHANGED notCtx

\* The patch load settles: the emblem and its ring, or the empty catch block
PatchSettles ==
  /\ ctx.pc = "awaitPatch"
  /\ \E outcome \in {"ok", "fail"} :
       LET settled == SettleLoad(ctx, "patch", 0)
       IN ctx' = [(IF outcome = "ok" THEN Call(settled, "patch", "draw", 0)
                                     ELSE settled)
                  EXCEPT !.pc = Continue("patch", req, 0)]
  /\ UNCHANGED notCtx

\* ctx.letterSpacing as the custom text step assigns it
LetterSpacingOf(selectedFont) ==
  IF selectedFont \in CapsOnlyFonts
    THEN (IF selectedFont = "Another Danger" THEN 4 ELSE 2)
    ELSE 0

\* The gold outline of the custom text and of the footer
Outlined(r) == r.selectedTheme \in {"night", "forest"}

\* The custom text: clearTextEffects, font, letterSpacing, clearTextEffects,
\* shadow, strokeText on the dark themes, fillText, clearTextEffects
CustomTextStep ==
  /\ ctx.pc = "customText"
  /\ LET spaced == [clearTextEffects(ctx)
                    EXCEPT !.letterSpacing = LetterSpacingOf(req.selectedFont)]
         shadowed == [clearTextEffects(spaced) EXCEPT !.shadow = TRUE]
         stroked == IF Outlined(req)
                      THEN Call(shadowed, "customText", "text", 0)
                      ELSE shadowed
         filled == Call(stroked, "customText", "text", 0)
     IN ctx' = [clearTextEffects(filled)
                EXCEPT !.pc = Continue("customText", req, 0)]
  /\ UNCHANGED notCtx

\* if (includeDateTime) drawDateAndTime(...): clearTextEffects before the
\* date, before the time and before it returns
DateTimeStep ==
  /\ ctx.pc = "dateTime"
  /\ LET date == Call(clearTextEffects(ctx), "dateTime", "text", 0)
         time == Call(clearTextEffects(date), "dateTime", "text", 0)
     IN ctx' = [(IF req.includeDateTime THEN clearTextEffects(time) ELSE ctx)
                EXCEPT !.pc = Continue("dateTime", req, 0), !.i = 0]
  /\ UNCHANGED notCtx

\* The head of the loop over the matches: match.logoUrl throws on a match
\* that is null; a match with a logoUrl awaits tryLoadImage
LogoStart ==
  /\ ctx.pc = "logo"
  /\ \E throws \in BOOLEAN :
       ctx' = IF throws
                THEN [Call(ctx, "matchRow", "end", ctx.i) EXCEPT !.pc = "rejected"]
                ELSE IF req.nextMatches[ctx.i + 1] = "url"
                  THEN [StartLoad(ctx, "matchRow", ctx.i) EXCEPT !.pc = "awaitLogo"]
                  ELSE [ctx EXCEPT !.pc = "entry"]
  /\ UNCHANGED notCtx

\* The logo load settles, with the image or in the catch block
LogoSettles ==
  /\ ctx.pc = "awaitLogo"
  /\ ctx' = [SettleLoad(ctx, "matchRow", ctx.i) EXCEPT !.pc = "entry"]
  /\ UNCHANGED notCtx

\* The entry is drawn: the white circle and the logo, then clearTextEffects
\* and the date, clearTextEffects and the time
EntryStep ==
  /\ ctx.pc = "entry"
  /\ LET logo == Call(ctx, "matchRow", "draw", ctx.i)
         date == Call(clearTextEffects(logo), "matchRow", "text", ctx.i)
         time == Call(clearTextEffects(date), "matchRow", "text", ctx.i)
     IN ctx' = [time EXCEPT !.pc = Continue("entry", req, ctx.i), !.i = @ + 1]
  /\ UNCHANGED notCtx

\* The footer: clearTextEffects, strokeText on the dark themes, fillText,
\* clearTextEffects; generateWallpaper returns
FooterStep ==
  /\ ctx.pc = "footer"
  /\ LET cleared == clearTextEffects(ctx)
         stroked == IF Outlined(req) THEN Call(cleared, "footer", "text", 0)
                                     ELSE cleared
         filled == Call(stroked, "footer", "text", 0)
     IN ctx' = [Call(clearTextEffects(filled), "footer", "end", 0)
                EXCEPT !.pc = "done"]
  /\ UNCHANGED notCtx

\* The context is in the state the drawing before the pass left it in
InitStyle ==
  /\ SchedOff
  /\ req \in StyleRequests
  /\ gpc = "off"
  /\ idx = 0
  /\ ops = <<>>
  /\ themeBackground = "none"
  /\ loads = NoLoads
  /\ raised = "none"
  /\ thrown = "none"
  /\ prev = NoPrev
  /\ LoadOff
  /\ download = NoDownload
  /\ PureOff
  /\ fontLoad = FontOff
  /\ dropped = NoVer
  /\ \E shadow \in BOOLEAN, globalAlpha \in {15, 100}, letterSpacing \in {0, 2} :
       ctx = [NoCtx EXCEPT !.pc = "idle", !.shadow = shadow,
                           !.globalAlpha = globalAlpha,
                           !.letterSpacing = letterSpacing]

NextStyle ==
  \/ BeginPass
  \/ BackgroundStep
  \/ ThemeEffectsStep
  \/ PatchStart
  \/ PatchSettles
  \/ CustomTextStep
  \/ DateTimeStep
  \/ LogoStart
  \/ LogoSettles
  \/ EntryStep
  \/ FooterStep

SpecStyle == InitStyle /\ [][NextStyle]_vars

\* ------------------------------------------------------------------------
\* Claims about the scheduler
\* ------------------------------------------------------------------------

\* C1: no two executions of generateWallpaper launched through queueRender
\* are in flight (between their reset step and their footer step) at once.
C1_MutualExclusion == Cardinality(passes) <= 1

\* C2: once nothing is pending any more, the last write to the canvas was made
\* by a pass that used the latest parameter values.
C2_LatestRequestWins == Quiescent => canvas.ver = ver

\* C3: a parameter change is followed by the start of a pass that reads the
\* changed values: when nothing is pending any more, a pass has started with
\* the latest props.
C3_ChangeIsRendered == Quiescent => maxStarted = ver

\* C7: whenever executeRender runs without a 2D context or with non-positive
\* dimensions, the canvas shows the explicit error state.
C7_FatalIsVisible == lastExec = "skipped" => canvas.state = "error"

\* C8: a capture taken after a pass has completed its frame, with no
\* parameter change since, reads a complete frame.
C8_SnapshotSafe ==
  (captured.taken /\ captured.afterDone) => captured.state = "complete"

\* C9: whenever the export path has captured the canvas, no pass that drew on
\* the captured frame after its last reset had drawn the date/time block.
C9_NoDateTimeInExport == captured.taken => ~captured.dt

\* ------------------------------------------------------------------------
\* Claims about one pass
\* ------------------------------------------------------------------------
HasOp(list, name) == \E k \in 1..Len(list) : list[k].op = name

NonPatchOps(list) ==
  SelectSeq(list, LAMBDA o : o.op \in {"customText", "logoCircle", "logoImage", "logoGlyph",
                                      "matchDate", "matchTime", "footer"})

LogoOps(list, k) ==
  SelectSeq(list, LAMBDA o : o.i = k /\ o.op \in {"logoImage", "logoGlyph", "undefined"})

PastPatch == gpc \in {"customText", "dateTime", "matchEntry", "footer", "done"}

\* C4: when the patch is enabled and its image load fails, the pass goes on
\* past the patch step with neither the emblem nor the gold ring drawn, and
\* once it is done its other draw operations (custom text, match row, footer)
\* are those, with the same coordinates, of the pass of the same request in
\* which the patch loaded.
C4_PatchFailureIsSilent ==
  (PatchRequested(req) /\ loads.patch = "fail") =>
    /\ PastPatch => (~HasOp(ops, "patchImage") /\ ~HasOp(ops, "patchRing"))
    /\ (gpc = "done" /\ prev.valid /\ prev.patch = "ok")
         => NonPatchOps(ops) = NonPatchOps(prev.ops)

C4_Witness ==
  /\ gpc = "done"
  /\ loads.patch = "fail"
  /\ prev.valid
  /\ HasOp(prev.ops, "patchImage")
  /\ HasOp(prev.ops, "patchRing")
  /\ HasOp(ops, "customText")
  /\ HasOp(ops, "matchTime")
  /\ HasOp(ops, "footer")

\* C11 as stated: with includeDateTime off and a catalog entry that carries no
\* effects tag, a pass that is done has issued the draw operations, with the
\* same arguments, of the earlier pass of the same request in which every load
\* and every step settled the same way.
SameSettling == prev.valid /\ prev.patch = loads.patch /\ prev.raised = raised

C5_LogoFailureIsolated ==
  /\ \A k \in 1..Len(req.nextMatches) :
       IF k <= idx
         THEN /\ Len(LogoOps(ops, k)) = 1
              /\ LogoOps(ops, k)[1].op =
                   (IF req.nextMatches[k] = "url" /\ loads.logo[k] = "ok"
                      THEN "logoImage" ELSE "logoGlyph")
         ELSE Len(LogoOps(ops, k)) = 0
  /\ thrown # "logo"
  /\ (gpc = "done" /\ DrawsMatches(req))
       => (idx = maxMatches(req) /\ HasOp(ops, "footer"))

C5_Witness ==
  /\ gpc = "done"
  /\ req.includeMatches
  /\ Len(req.nextMatches) >= 2
  /\ req.nextMatches[1] = "url"
  /\ loads.logo[1] = "fail"
  /\ LogoOps(ops, 1) = <<Op("logoGlyph", 1, itemCenterX(req, 0), scheduleY(req))>>
  /\ Len(LogoOps(ops, 2)) = 1
  /\ HasOp(ops, "footer")

\* C6: an exception thrown inside an optional step (theme effects, date/time
\* block, one match entry, the theme gradient) does not leave
\* generateWallpaper: the pass goes on with its later steps.
C6_ExceptionContained == raised # "none" => (thrown = "none" /\ gpc # "rejected")

\* ------------------------------------------------------------------------
\* Claims about tryLoadImage
\* ------------------------------------------------------------------------

\* C10 as stated: the first attempt of a call is cross-origin-enabled; when it
\* fails there is exactly one more attempt, without cross-origin mode; the
\* call rejects only after both attempts have failed, resolves with the image
\* of the attempt that succeeded, and makes at most two attempts.
C10_CorsFirstRetryOnce ==
  /\ Len(attempts) <= 2
  /\ Len(attempts) >= 1 => attempts[1].crossOrigin
  /\ img.state = "error" => Len(attempts) = 2
  /\ Len(attempts) = 2 => (img.state = "error" /\ ~attempts[2].crossOrigin)
  /\ promise = "rejected" => (img.state = "error" /\ fallbackImg.state = "error")
  /\ promise = "img" => img.state = "loaded"
  /\ promise = "fallbackImg" => (img.state = "error" /\ fallbackImg.state = "loaded")

\* C10 as amended: the first attempt is cross-origin-enabled exactly when the
\* browser is not an iOS browser and the source is neither same-origin nor a
\* data URL; when such an attempt fails there is exactly one more attempt,
\* without cross-origin mode, and the call rejects only after both have
\* failed; when the first attempt was made without cross-origin mode there
\* is no retry and the call rejects when it fails. The call resolves with the
\* image of the attempt that succeeded and makes at most two attempts.
C10_CorsWhenForeignRetryOnce ==
  /\ Len(attempts) <= 2
  /\ Len(attempts) >= 1 =>
       (attempts[1].crossOrigin <=>
          (~(nav.iOSDevice /\ ~nav.MSStream)
             /\ src \notin {"rootRelative", "pageOrigin", "dataUrl"}))
  /\ img.state = "error" =>
       Len(attempts) = (IF attempts[1].crossOrigin THEN 2 ELSE 1)
  /\ Len(attempts) = 2 => (img.state = "error" /\ ~attempts[2].crossOrigin)
  /\ promise = "rejected" =>
       /\ img.state = "error"
       /\ attempts[1].crossOrigin => fallbackImg.state = "error"
  /\ promise = "img" => img.state = "loaded"
  /\ promise = "fallbackImg" => (img.state = "error" /\ fallbackImg.state = "loaded")

C10_Witness ==
  /\ promise = "rejected"
  /\ Len(attempts) = 2
  /\ attempts[1].crossOrigin
  /\ ~attempts[2].crossOrigin

\* ------------------------------------------------------------------------
\* Claims about the layout
\* ------------------------------------------------------------------------
Nearest(lo, v, hi) == IF v < lo THEN lo ELSE IF v > hi THEN hi ELSE v

\* C12: for every patchPositionY the patch centre is floor(height * p) with p
\* the value of [0.2, 0.8] nearest to patchPositionY, for every matchPositionY
\* the margin is computed from the value of [0.1, 0.4] nearest to
\* matchPositionY, and the whole layout is that of the request with these
\* nearest values.
C12_Clamping ==
  result.done =>
    LET pp == Nearest(20, arg.patchPositionY, 80)
        mp == Nearest(10, arg.matchPositionY, 40)
    IN /\ result.LOGO_Y = (arg.device.height * pp) \div 100
       /\ result.calculatedMargin = (arg.device.height * mp) \div 100
       /\ result = Layout([arg EXCEPT !.patchPositionY = pp, !.matchPositionY = mp])

C12_Witness ==
  /\ result.done
  /\ arg.patchPositionY > 80
  /\ arg.matchPositionY \in 1..9
  /\ result.LOGO_Y = (arg.device.height * 80) \div 100
  /\ result.calculatedMargin = (arg.device.height * 10) \div 100

\* C13: for every device and every matchPositionY the time line of the match
\* row lies at or above height - FOOTER_BOTTOM_MARGIN - MIN_MATCH_FOOTER_BUFFER.
C13_RowClearOfFooter ==
  result.done =>
    result.timeTextY <=
      (arg.device.height - FOOTER_BOTTOM_MARGIN - MIN_MATCH_FOOTER_BUFFER) * Unit

C13_Witness ==
  /\ result.done
  /\ arg.matchPositionY < 10
  /\ result.SCHEDULE_BOTTOM_MARGIN = minSafeMargin(arg)
  /\ result.timeTextY > (arg.device.height - 2 * FOOTER_BOTTOM_MARGIN) * Unit

\* ------------------------------------------------------------------------
\* Claims about the date and the time of a match
\* ------------------------------------------------------------------------
\* The instant of a kickoff, and its date and time of day in Pacific time
KickoffInstant(k) ==
  (DaysFromCivil(k.year, k.month, k.day)) * 1440 + k.hour * 60 + k.minute

PacificDate(k) == LocalDate(KickoffInstant(k), "America/Los_Angeles")

PacificMinutes(k) == LocalMinutes(KickoffInstant(k), "America/Los_Angeles")

\* C14: a match whose starting_at is missing or is no YYYY-MM-DD HH:MM:SS
\* timestamp is drawn with TBD as its date and TBD as its time.
C14_MalformedIsTBD ==
  (result.done /\ ~arg.kickoff.valid) =>
    (result.shortDate = TBD /\ result.shortTime = TBD)

\* C15: the date drawn for a kickoff is month/day of its calendar date in
\* Pacific time, whatever the time zone of the viewer.
C15_PacificDate ==
  (result.done /\ arg.kickoff.valid) =>
    result.shortDate = Decimal(PacificDate(arg.kickoff).month) \o <<"/">>
                         \o Decimal(PacificDate(arg.kickoff).day)

\* C16: the time drawn for a kickoff is its hour of the 12-hour clock in
\* Pacific time, then a colon and the two digits of the minutes unless they
\* are 00, then a for a time before noon and p otherwise.
C16_CompactPacificTime ==
  (result.done /\ arg.kickoff.valid) =>
    LET h == PacificMinutes(arg.kickoff) \div 60
        mi == PacificMinutes(arg.kickoff) % 60
    IN result.shortTime =
         Decimal(IF h % 12 = 0 THEN 12 ELSE h % 12)
           \o (IF mi = 0 THEN <<>> ELSE <<":", Digits[mi \div 10 + 1], Digits[(mi % 10) + 1]>>)
           \o <<IF h < 12 THEN "a" ELSE "p">>

C16_Witness ==
  /\ result.done
  /\ arg.kickoff = [valid |-> TRUE, year |-> 2025, month |-> 7, day |-> 6,
                    hour |-> 2, minute |-> 30]
  /\ arg.zone = "Asia/Tokyo"
  /\ result.shortTime = <<"7", ":", "3", "0", "p">>

\* ------------------------------------------------------------------------
\* Claims about the custom text
\* ------------------------------------------------------------------------
First50(str) == IF Len(str) <= 50 THEN str ELSE SubSeq(str, 1, 50)

\* C17: for the fonts Lethal Slime, Another Danger, Rose and Urban Jungle
\* fillText is given the upper case of the first 50 characters of customText,
\* for every other font the first 50 characters of customText as they are.
C17_CapsOnly ==
  result.done =>
    result.fillText =
      IF arg.selectedFont \in {"Lethal Slime", "Another Danger", "Rose", "Urban Jungle"}
        THEN ToUpperCase(First50(CustomTextProp(arg)))
        ELSE First50(CustomTextProp(arg))

C17_Witness ==
  /\ result.done
  /\ arg.selectedFont = "Rose"
  /\ Len(arg.customText) > 50
  /\ \E k \in 1..50 : arg.customText[k] = "ß"
  /\ Len(result.fillText) > 50
  /\ \A k \in 1..Len(result.fillText) : result.fillText[k] \notin {"a", "o", "ß"}

\* C18: for every font and every multiplier, the font size of a text is at
\* most the font size of every shorter text.
C18_FontSizeMonotone ==
  result.done =>
    \A shorter \in 0..Len(CustomTextProp(arg)) :
      result.fontSize <= FontSize(arg.selectedFont, shorter, arg.fontSizeMultiplier)

C18_Witness ==
  /\ result.done
  /\ arg.selectedFont = "Lethal Slime"
  /\ Len(arg.customText) = 9
  /\ result.fontSize < FontSize(arg.selectedFont, 8, arg.fontSizeMultiplier)

\* C22: when customText is the empty string, the string fillText is given for
\* the custom text is not empty.
C22_EmptyTextHasLabel ==
  (result.done /\ arg.customTextGiven /\ arg.customText = <<>>) =>
    result.fillText # <<>>

\* ------------------------------------------------------------------------
\* Claims about the match row
\* ------------------------------------------------------------------------
\* C19: of n matches the first min(n, 6) are drawn, entry i (from 0) is the
\* i-th match of the list as it was given and is centred at
\* (width - 0.85 * width) / 2 + (i + 1/2) * (0.85 * width / min(n, 6)),
\* that is at width * (15 * m + 85 * (2 * i + 1)) / (200 * m) for m = min(n, 6).
C19_RowLayout ==
  result.done =>
    LET n == Len(arg.nextMatches)
        m == IF n < 6 THEN n ELSE 6
    IN /\ Len(result.row) = m
       /\ \A i \in 0..(m - 1) :
            /\ result.row[i + 1].match = arg.nextMatches[i + 1]
            /\ result.row[i + 1].itemCenterX * m
                 = arg.device.width * (15 * m + 85 * (2 * i + 1)) * (Unit \div 200)

C19_Witness ==
  /\ result.done
  /\ Len(arg.nextMatches) = 7
  /\ Len(result.row) = 6
  /\ arg.nextMatches[1] > arg.nextMatches[2]
  /\ result.row[1].match = arg.nextMatches[1]
  /\ result.row[1].itemCenterX + result.row[6].itemCenterX = arg.device.width * Unit

\* ------------------------------------------------------------------------
\* Claims about the theme
\* ------------------------------------------------------------------------
BackgroundResolved == gpc \notin {"idle", "getThemeBackground"}

BackgroundPainted == gpc \notin {"idle", "getThemeBackground", "paintBackground", "rejected"}

C21_FontLoadBounded ==
  /\ \A i \in 1..Len(fontLoad.runs) :
       LET run == fontLoad.runs[i]
       IN /\ run.attempts <= 3
          /\ Len(run.delays) <= 2
          /\ \A k \in 1..Len(run.delays) : run.delays[k] = k * 1000
          /\ run.pc = "loading" => Len(run.delays) = run.attempts - 1
          /\ (run.success = "false" /\ run.mounted) => run.attempts = 3
          /\ (run.pc = "done" /\ run.mounted) => run.queued
  /\ fontLoad.mainFrames = Len(fontLoad.runs)

C21_Witness ==
  /\ Len(fontLoad.runs) = 1
  /\ fontLoad.runs[1].pc = "done"
  /\ fontLoad.runs[1].success = "false"
  /\ fontLoad.runs[1].attempts = 3
  /\ fontLoad.runs[1].delays = <<1000, 2000>>
  /\ fontLoad.runs[1].queued


\* C23: a trigger that reaches queueRender while isRendering is set is not
\* lost: once nothing is scheduled any more, a pass has been started for a
\* request at least as new as the newest one queueRender turned away
C23_TriggerNotLost ==
  (Quiescent /\ dropped # NoVer) => maxStarted >= dropped


\* C24: from the reset step of a pass until its footer step, no code outside
\* the passes in flight (queueRender's resetCanvasState, executeRender's black
\* fill, the resetCanvas of a settled font load) touches the canvas: a step
\* that is not a step of a pass leaves the canvas as it is
C24_ExclusiveCanvas ==
  [][(passes # {} /\ passes' = passes) => canvas' = canvas]_vars


\* C25: isRendering cannot stay set for ever: whenever the flag is set, the
\* executeRender whose finally block clears it is pending
C25_FlagIsReleased ==
  isRendering => \E i \in 1..Len(timers) : timers[i].kind = "execute"


\* ------------------------------------------------------------------------
\* Claims about the order of the calls of a pass and the state of the context
\* ------------------------------------------------------------------------

\* The loads of a pass in the order the claim gives them
LoadRank(e) ==
  CASE e.step = "background" -> 0
    [] e.step = "patch" -> 1
    [] OTHER -> 2 + e.i

\* C26: the image loads of one pass are strictly sequential: at most one load
\* is outstanding at any time; when a load starts every load started before
\* it has settled; the loads start in the order background, patch, logos; and
\* the logo of entry i has been drawn when the load of entry i + 1 starts
C26_SequentialLoads ==
  /\ Cardinality(ctx.loading) <= 1
  /\ \A k \in 1..Len(ctx.log) :
       ctx.log[k].kind = "start" =>
         /\ ctx.log[k].loading = {<<ctx.log[k].step, ctx.log[k].i>>}
         /\ \A j \in 1..(k - 1) :
              ctx.log[j].kind = "start" => LoadRank(ctx.log[j]) < LoadRank(ctx.log[k])
         /\ \A j \in 1..(k - 1) :
              (ctx.log[j].kind = "start" /\ ctx.log[j].step = "matchRow") =>
                \E d \in (j + 1)..(k - 1) :
                  /\ ctx.log[d].kind = "draw"
                  /\ ctx.log[d].step = "matchRow"
                  /\ ctx.log[d].i = ctx.log[j].i

\* A pass has ended that awaited its patch and the logos of two matches
C26_Witness ==
  /\ ctx.pc = "done"
  /\ Cardinality({k \in 1..Len(ctx.log) : ctx.log[k].kind = "start"}) >= 3
  /\ Cardinality({k \in 1..Len(ctx.log) :
                    ctx.log[k].kind = "start" /\ ctx.log[k].step = "matchRow"}) >= 2

\* The place of a step in the z-order
StepRank(step) ==
  CASE step = "reset" -> 0
    [] step = "background" -> 1
    [] step = "effects" -> 2
    [] step = "patch" -> 3
    [] step = "customText" -> 4
    [] step = "dateTime" -> 5
    [] step = "matchRow" -> 6
    [] OTHER -> 7

IsDraw(e) == e.kind \in {"draw", "text"}

\* C27: the steps of a pass draw in the order reset, background, effects,
\* patch, custom text, date/time, match row, footer: no draw operation of a
\* step is issued after one of a later step, the entries of the match row are
\* drawn in their order, and the first draw operation is that of the reset
C27_FixedZOrder ==
  /\ \A j, k \in 1..Len(ctx.log) :
       (j < k /\ IsDraw(ctx.log[j]) /\ IsDraw(ctx.log[k])) =>
         /\ StepRank(ctx.log[j].step) <= StepRank(ctx.log[k].step)
         /\ ctx.log[j].step = "matchRow" /\ ctx.log[k].step = "matchRow" =>
              ctx.log[j].i <= ctx.log[k].i
  /\ ctx.log # <<>> => (ctx.log[1].step = "reset" /\ ctx.log[1].kind = "draw")

\* A pass has ended in which every step drew and which image loads suspended
C27_Witness ==
  /\ ctx.pc = "done"
  /\ \A s \in {"reset", "background", "effects", "patch", "customText",
               "dateTime", "matchRow", "footer"} :
       \E k \in 1..Len(ctx.log) : IsDraw(ctx.log[k]) /\ ctx.log[k].step = s
  /\ \E k \in 1..Len(ctx.log) :
       ctx.log[k].kind = "suspend" /\ ctx.log[k].step = "matchRow"

\* C28: at every text draw other than that of the custom text the context has
\* no shadow and globalAlpha is 1; globalAlpha is 1 when addThemeEffects
\* returns; where the pass suspends and where it ends, the shadow and
\* globalAlpha are at their defaults
C28_NoStylingBleed ==
  \A k \in 1..Len(ctx.log) :
    /\ (ctx.log[k].kind = "text" /\ ctx.log[k].step # "customText") =>
         (~ctx.log[k].shadow /\ ctx.log[k].globalAlpha = 100)
    /\ ctx.log[k].kind = "return" => ctx.log[k].globalAlpha = 100
    /\ ctx.log[k].kind \in {"suspend", "end"} =>
         (~ctx.log[k].shadow /\ ctx.log[k].globalAlpha = 100)

\* A pass has ended that drew an overlay at another globalAlpha and the
\* custom text with its shadow, then the date and time, a match and the footer
C28_Witness ==
  /\ ctx.pc = "done"
  /\ \E k \in 1..Len(ctx.log) :
       ctx.log[k].step = "effects" /\ ctx.log[k].globalAlpha # 100
  /\ \E k \in 1..Len(ctx.log) :
       ctx.log[k].step = "customText" /\ ctx.log[k].shadow
  /\ \A s \in {"dateTime", "matchRow", "footer"} :
       \E k \in 1..Len(ctx.log) : ctx.log[k].kind = "text" /\ ctx.log[k].step = s

\* C29: at the strokeText and fillText calls of the custom text letterSpacing
\* is 4px for Another Danger, 2px for the other caps-only fonts and 0px for
\* every other font
C29_LetterSpacingInForce ==
  \A k \in 1..Len(ctx.log) :
    (ctx.log[k].kind = "text" /\ ctx.log[k].step = "customText") =>
      ctx.log[k].letterSpacing = LetterSpacingOf(req.selectedFont)


\* ------------------------------------------------------------------------
\* Claims about the overlay of a theme
\* ------------------------------------------------------------------------

\* addThemeEffects has returned at call k of the pass without a draw
\* operation and with the context as it found it
NoOverlayAt(k) ==
  /\ k > 1
  /\ ctx.log[k - 1].step # "effects"
  /\ ctx.log[k - 1].shadow = ctx.log[k].shadow
  /\ ctx.log[k - 1].globalAlpha = ctx.log[k].globalAlpha
  /\ ctx.log[k - 1].letterSpacing = ctx.log[k].letterSpacing

====
